---- MODULE Spec2Model ----
(***************************************************************************)
(* Verification model of the mid-circuit-measurement machinery of          *)
(* PennyLane:                                                              *)
(*   - pennylane/devices/qubit/simulate.py  (simulate, simulate_tree_mcm   *)
(*     and the measurement combination);                                   *)
(*   - pennylane/transforms/dynamic_one_shot.py (dynamic_one_shot and the  *)
(*     reassembly of one-shot results).                                    *)
(*                                                                         *)
(* The quantum state is abstracted: sampling a state is a nondeterministic *)
(* choice of one outcome per shot.  Every observable of a terminal         *)
(* measurement has the two eigenvalues 0 and 1.  Floating point values are *)
(* exact rationals; NaN is the rational 0/0.                               *)
(***************************************************************************)
EXTENDS Integers, Sequences, FiniteSets, TLC

(***************************************************************************)
(* Bounds of the model.                                                    *)
(***************************************************************************)
MaxShots == 3
MaxOps == 2

(***************************************************************************)
(* Generic helpers.                                                        *)
(***************************************************************************)
RECURSIVE SumSeq(_)
SumSeq(s) == IF s = <<>> THEN 0 ELSE Head(s) + SumSeq(Tail(s))

RECURSIVE SelectIdx(_, _, _)
\* the elements of s at the positions where mask holds, in order (s[mask])
SelectIdx(s, mask, i) ==
    IF i > Len(s) THEN <<>>
    ELSE (IF mask[i] THEN <<s[i]>> ELSE <<>>) \o SelectIdx(s, mask, i + 1)

CountTrue(mask) == Cardinality({i \in DOMAIN mask : mask[i]})

RECURSIVE GCD(_, _)
GCD(a, b) == IF b = 0 THEN a ELSE GCD(b, a % b)

Abs(x) == IF x < 0 THEN -x ELSE x

(***************************************************************************)
(* Floating point values as exact rationals n/d; NaN = 0/0 and every       *)
(* operation with a NaN operand yields NaN, as in IEEE arithmetic.         *)
(***************************************************************************)
NaN == [n |-> 0, d |-> 0]

IsNaN(r) == r.d = 0

Rat(n, d) ==
    IF d = 0 THEN NaN
    ELSE LET g == GCD(Abs(n), Abs(d))
             s == IF d < 0 THEN -1 ELSE 1
         IN  [n |-> (s * n) \div g, d |-> (s * d) \div g]

RatAdd(a, b) ==
    IF IsNaN(a) \/ IsNaN(b) THEN NaN ELSE Rat(a.n * b.d + b.n * a.d, a.d * b.d)

RatSub(a, b) ==
    IF IsNaN(a) \/ IsNaN(b) THEN NaN ELSE Rat(a.n * b.d - b.n * a.d, a.d * b.d)

RatMul(a, b) == IF IsNaN(a) \/ IsNaN(b) THEN NaN ELSE Rat(a.n * b.n, a.d * b.d)

RatScale(k, r) == IF IsNaN(r) THEN NaN ELSE Rat(k * r.n, r.d)

RatDivInt(r, k) == IF IsNaN(r) \/ k = 0 THEN NaN ELSE Rat(r.n, r.d * k)

RECURSIVE RatSum(_)
RatSum(rs) == IF rs = <<>> THEN Rat(0, 1) ELSE RatAdd(Head(rs), RatSum(Tail(rs)))

(***************************************************************************)
(* Measurement results.  t is the Python/numpy type of the value:          *)
(*   "num"  a scalar float (v = <<rational>>),                             *)
(*   "vec"  a probability vector, one rational per eigenvalue,             *)
(*   "arr"  an array of samples with nd dimensions (nd = 0: one sample),   *)
(*   "cnt"  a counts dictionary, v[1] = count of 0, v[2] = count of 1,     *)
(*   "tup"  a tuple of results.                                            *)
(***************************************************************************)
Num(r) == [t |-> "num", nd |-> 0, v |-> <<r>>]
Vec(rs) == [t |-> "vec", nd |-> 1, v |-> rs]
Arr(nd, xs) == [t |-> "arr", nd |-> nd, v |-> xs]
Cnt(c0, c1) == [t |-> "cnt", nd |-> 0, v |-> <<c0, c1>>]
Tup(vs) == [t |-> "tup", nd |-> 1, v |-> vs]
NoResult == [t |-> "none", nd |-> 0, v |-> <<>>]

\* numpy.squeeze of a one-dimensional array: one element gives a 0-d array
Squeeze(a) ==
    IF a.t = "arr" /\ a.nd = 1 /\ Len(a.v) = 1 THEN Arr(0, a.v) ELSE a

\* numpy.var of an array of samples (population variance)
VarOf(xs) ==
    LET n == Len(xs)
        s == SumSeq(xs)
        q == SumSeq([i \in 1..n |-> xs[i] * xs[i]])
    IN  IF n = 0 THEN NaN ELSE Rat(n * q - s * s, n * n)

(***************************************************************************)
(* Circuits.  An operation is a gate or a MidMeasureMP; id is the identity *)
(* of the operation object (its position in the circuit given to           *)
(* simulate), postselect is PSNone, 0 or 1.  A measurement has a kind and  *)
(* mv tells whether it is tied to a mid-circuit measurement value (the     *)
(* value of the first MidMeasureMP of the circuit).  shots = 0 is an       *)
(* analytic circuit.                                                       *)
(***************************************************************************)
PSNone == -1

Gate(i) == [kind |-> "Gate", id |-> i, postselect |-> PSNone]
MidMeasureMP(i, p) == [kind |-> "MidMeasureMP", id |-> i, postselect |-> p]
NoOp == [kind |-> "None", id |-> 0, postselect |-> PSNone]

OpShapes(i) == {Gate(i)} \cup {MidMeasureMP(i, p) : p \in {PSNone, 0, 1}}

OpLists ==
    UNION {{ops \in [1..n -> UNION {OpShapes(i) : i \in 1..n}] :
                \A i \in 1..n : ops[i].id = i} : n \in 0..MaxOps}

MP(kind, mv) == [kind |-> kind, mv |-> mv]

MeasLists ==
    {<<MP("ExpectationMP", FALSE)>>, <<MP("ProbabilityMP", FALSE)>>,
     <<MP("SampleMP", FALSE)>>, <<MP("VarianceMP", FALSE)>>,
     <<MP("CountsMP", FALSE)>>, <<MP("ExpectationMP", TRUE)>>,
     <<MP("ExpectationMP", FALSE), MP("ProbabilityMP", FALSE)>>,
     <<MP("ExpectationMP", TRUE), MP("ExpectationMP", FALSE)>>}

QuantumScript(ops, meas, shots) == [ops |-> ops, meas |-> meas, shots |-> shots]

(***************************************************************************)
(* Python dictionaries keep insertion order: a dictionary is a sequence of *)
(* entries [k, v] without repeated keys.  mcm_active and mcm_samples are   *)
(* keyed by the MidMeasureMP object, here its id.                          *)
(***************************************************************************)
HasKey(d, k) == \E i \in DOMAIN d : d[i].k = k

Lookup(d, k) == d[CHOOSE i \in DOMAIN d : d[i].k = k].v

\* variant: the key written moves to the end of the dictionary
PutAtEnd(d, k, v) ==
    Append(SelectSeq(d, LAMBDA e : e.k # k), [k |-> k, v |-> v])

\* d[k] = v : replaces the value in place, or appends a new entry
Put(d, k, v) ==
    IF HasKey(d, k)
    THEN [i \in DOMAIN d |-> IF d[i].k = k THEN [k |-> k, v |-> v] ELSE d[i]]
    ELSE Append(d, [k |-> k, v |-> v])

(***************************************************************************)
(* has_mid_circuit_measurements                                            *)
(***************************************************************************)
HasMidCircuitMeasurements(c) ==
    \E i \in DOMAIN c.ops : c.ops[i].kind = "MidMeasureMP"

(***************************************************************************)
(* circuit_up_to_first_mcm: base circuit, continuation and the operator.   *)
(* none = TRUE stands for the return value (circuit, None, None).          *)
(***************************************************************************)
FindNextMcm(c) ==
    IF HasMidCircuitMeasurements(c)
    THEN CHOOSE i \in DOMAIN c.ops :
            /\ c.ops[i].kind = "MidMeasureMP"
            /\ \A j \in 1..(i - 1) : c.ops[j].kind # "MidMeasureMP"
    ELSE Len(c.ops) + 1

RECURSIVE NextMeasurements(_)
\* the measurements of the continuation: not tied to MCM values, and a
\* VarianceMP replaced by a SampleMP
NextMeasurements(meas) ==
    IF meas = <<>> THEN <<>>
    ELSE LET m == Head(meas)
         IN  (IF ~m.mv
              THEN (IF m.kind = "VarianceMP"
                    THEN <<MP("SampleMP", FALSE)>> ELSE <<m>>)
              ELSE <<>>) \o NextMeasurements(Tail(meas))

\* variant: the continuation keeps the measurements as they are
CircuitUpToFirstMcmKeepingVariance(c) ==
    IF ~HasMidCircuitMeasurements(c)
    THEN [base |-> c, next |-> c, op |-> NoOp, none |-> TRUE]
    ELSE [base |-> QuantumScript(SubSeq(c.ops, 1, FindNextMcm(c) - 1),
                                 <<MP("SampleMP", FALSE)>>, c.shots),
          next |-> QuantumScript(SubSeq(c.ops, FindNextMcm(c) + 1, Len(c.ops)),
                                 SelectSeq(c.meas, LAMBDA m : ~m.mv), c.shots),
          op |-> c.ops[FindNextMcm(c)],
          none |-> FALSE]

CircuitUpToFirstMcm(c) ==
    IF ~HasMidCircuitMeasurements(c)
    THEN [base |-> c, next |-> c, op |-> NoOp, none |-> TRUE]
    ELSE LET i == FindNextMcm(c)
         IN  [base |-> QuantumScript(SubSeq(c.ops, 1, i - 1),
                                     <<MP("SampleMP", FALSE)>>, c.shots),
              next |-> QuantumScript(SubSeq(c.ops, i + 1, Len(c.ops)),
                                     NextMeasurements(c.meas), c.shots),
              op |-> c.ops[i],
              none |-> FALSE]

(***************************************************************************)
(* samples_to_counts: numpy.unique gives the distinct values in increasing *)
(* order with their counts; a value that does not occur has no key.        *)
(***************************************************************************)
CountOf(samples, x) == Cardinality({i \in DOMAIN samples : samples[i] = x})

\* variant: an outcome that does not occur gets a key with count 0
SamplesToCountsOfBothOutcomes(samples) ==
    <<[k |-> 0, c |-> CountOf(samples, 0)], [k |-> 1, c |-> CountOf(samples, 1)]>>

SamplesToCounts(samples) ==
    (IF CountOf(samples, 0) > 0
     THEN <<[k |-> 0, c |-> CountOf(samples, 0)]>> ELSE <<>>)
    \o (IF CountOf(samples, 1) > 0
        THEN <<[k |-> 1, c |-> CountOf(samples, 1)]>> ELSE <<>>)

(***************************************************************************)
(* The mask of the rows of mcm_samples that belong to the current branch:  *)
(* the loop over mcm_active.items() of update_mcm_samples and              *)
(* prune_mcm_samples, which stops at the entry of op.                      *)
(***************************************************************************)
\* variant: the loop does not stop at the entry of op
RECURSIVE ParentMaskOverAll(_, _, _, _, _)
ParentMaskOverAll(op, active, msamples, mask, i) ==
    IF i > Len(active) THEN mask
    ELSE ParentMaskOverAll(op, active, msamples,
                           [j \in DOMAIN mask |->
                               mask[j] /\ Lookup(msamples, active[i].k)[j] = active[i].v],
                           i + 1)

RECURSIVE ParentMask(_, _, _, _, _)
ParentMask(op, active, msamples, mask, i) ==
    IF i > Len(active) \/ active[i].k = op.id THEN mask
    ELSE ParentMask(op, active, msamples,
                    [j \in DOMAIN mask |->
                        mask[j] /\ Lookup(msamples, active[i].k)[j] = active[i].v],
                    i + 1)

\* number of TRUE entries of mask at positions 1..j
Rank(mask, j) == Cardinality({i \in 1..j : mask[i]})

(***************************************************************************)
(* update_mcm_samples.  fill holds the content of the array that           *)
(* numpy.empty returns when op has no array yet (uninitialised memory).    *)
(* numpy raises ValueError when the number of masked rows differs from the *)
(* number of samples (one sample is broadcast).                            *)
(***************************************************************************)
UpdateMcmSamples(op, samples, active, msamples, fill) ==
    IF active # <<>>
    THEN LET shape == Len(msamples[1].v)
             mask == ParentMask(op, active, msamples, [j \in 1..shape |-> TRUE], 1)
             old == IF HasKey(msamples, op.id) THEN Lookup(msamples, op.id) ELSE fill
             fits == CountTrue(mask) = Len(samples) \/ Len(samples) = 1
             new == [j \in 1..shape |->
                        IF mask[j]
                        THEN (IF Len(samples) = 1 THEN samples[1]
                              ELSE samples[Rank(mask, j)])
                        ELSE old[j]]
         IN  IF fits THEN [err |-> "none", d |-> Put(msamples, op.id, new)]
             ELSE [err |-> "ValueError", d |-> Put(msamples, op.id, old)]
    ELSE [err |-> "none", d |-> Put(msamples, op.id, samples)]

(***************************************************************************)
(* prune_mcm_samples: removes from every array the rows of the rejected    *)
(* branch below the current parent nodes.                                  *)
(***************************************************************************)
PruneMask(op, branch, active, msamples) ==
    LET own == Lookup(msamples, op.id)
    IN  ParentMask(op, active, msamples,
                   [j \in DOMAIN own |-> own[j] = branch], 1)

\* variant: only the array of op loses the rows of the rejected branch
PruneOwnArray(op, branch, active, msamples) ==
    [i \in DOMAIN msamples |->
        [k |-> msamples[i].k,
         v |-> IF msamples[i].k = op.id
               THEN SelectIdx(msamples[i].v,
                              [j \in DOMAIN msamples[i].v |->
                                  ~PruneMask(op, branch, active, msamples)[j]], 1)
               ELSE msamples[i].v]]

PruneMcmSamples(op, branch, active, msamples) ==
    LET mask == PruneMask(op, branch, active, msamples)
        keep == [j \in DOMAIN mask |-> ~mask[j]]
    IN  [i \in DOMAIN msamples |->
            [k |-> msamples[i].k, v |-> SelectIdx(msamples[i].v, keep, 1)]]

(***************************************************************************)
(* Outcomes of a call: err = "none" and a value, or the exception raised.  *)
(***************************************************************************)
Ok(val) == [err |-> "none", val |-> val]
Raise(e) == [err |-> e, val |-> NoResult]

(***************************************************************************)
(* measure_final_state on a circuit without mid-circuit measurement.       *)
(* xs holds the eigenvalue sampled in each shot.  With a single shot a     *)
(* sample is a 0-d array (SampleMP.shape).  With one measurement the       *)
(* result is the value itself, otherwise the tuple of values.              *)
(***************************************************************************)
MeasureOne(m, xs) ==
    LET n == Len(xs)
        s == SumSeq(xs)
    IN  CASE m.kind = "ExpectationMP" -> Num(Rat(s, n))
          [] m.kind = "ProbabilityMP" -> Vec(<<Rat(n - s, n), Rat(s, n)>>)
          [] m.kind = "SampleMP" -> Arr(IF n = 1 THEN 0 ELSE 1, xs)
          [] m.kind = "CountsMP" -> Cnt(n - s, s)
          [] OTHER -> Num(VarOf(xs))

MeasureFinalState(c, xs) ==
    IF Len(c.meas) = 1 THEN MeasureOne(c.meas[1], xs)
    ELSE Tup([i \in DOMAIN c.meas |-> MeasureOne(c.meas[i], xs)])

(***************************************************************************)
(* measurement_with_no_shots                                               *)
(***************************************************************************)
\* variant: a scalar NaN whatever the measurement
MeasurementWithNoShotsScalar(m) == Num(NaN)

MeasurementWithNoShots(m) ==
    IF m.kind = "ProbabilityMP" THEN Vec(<<NaN, NaN>>) ELSE Num(NaN)

(***************************************************************************)
(* gather_non_mcm (dynamic_one_shot.py).  samples holds one value per      *)
(* shot, is_valid one boolean per shot; a boolean multiplies as 0 or 1.    *)
(* samples.axis tells whether samples can be iterated shot by shot: a list *)
(* or an array with a shot axis can, a 0-d array (one squeezed value)      *)
(* cannot, and "for i, d in enumerate(samples)" raises TypeError on it.    *)
(***************************************************************************)
fill_in_value == -2147483647 - 1

AsInt(b) == IF b THEN 1 ELSE 0

Column(axis, v) == [axis |-> axis, v |-> v]

\* the number a one-shot value stands for: a float or a 0-d sample
Scalar(r) == IF r.t = "num" THEN r.v[1].n ELSE r.v[1]

SumValid(xs, is_valid) == SumSeq([i \in DOMAIN xs |-> xs[i] * AsInt(is_valid[i])])

GatherNonMcm(m, samples, is_valid, postselect_mode) ==
    LET n == Len(samples.v)
        vals == [i \in 1..n |-> Scalar(samples.v[i])]
        n_valid == SumSeq([i \in 1..n |-> AsInt(is_valid[i])])
    IN  CASE m.kind = "CountsMP" ->
               \* Counter.update adds v * is_valid[i]; entries of 0 are dropped
               IF ~samples.axis THEN Raise("TypeError")
               ELSE Ok(Cnt(SumValid([i \in 1..n |-> samples.v[i].v[1]], is_valid),
                           SumValid([i \in 1..n |-> samples.v[i].v[2]], is_valid)))
          [] m.kind = "SampleMP" ->
               IF postselect_mode = "pad-invalid-samples"
               THEN Ok(Arr(1, [i \in 1..n |-> IF is_valid[i] THEN vals[i]
                                              ELSE fill_in_value]))
               ELSE Ok(Arr(1, SelectIdx(vals, is_valid, 1)))
          [] m.kind = "ExpectationMP" ->
               Ok(Num(Rat(SumValid(vals, is_valid), n_valid)))
          [] m.kind = "ProbabilityMP" ->
               Ok(Vec(<<Rat(SumValid([i \in 1..n |-> samples.v[i].v[1].n], is_valid),
                            n_valid),
                        Rat(SumValid([i \in 1..n |-> samples.v[i].v[2].n], is_valid),
                            n_valid)>>))
          [] OTHER ->
               \* VarianceMP: sum((samples - expval)^2 * is_valid) / sum(is_valid)
               LET expval == Rat(SumValid(vals, is_valid), n_valid)
                   sq(i) == LET dev == RatSub(Rat(vals[i], 1), expval)
                            IN  RatScale(AsInt(is_valid[i]), RatMul(dev, dev))
               IN  Ok(Num(RatDivInt(RatSum([i \in 1..n |-> sq(i)]), n_valid)))

(***************************************************************************)
(* gather_mcm for a measurement of one measurement value: the value is the *)
(* outcome of the first MidMeasureMP, so mv.concretize(samples) is its     *)
(* column and mv.branches.values() is (0, 1).  The column is ravelled, and *)
(* for counts turned into a list of dictionaries: both have a shot axis.   *)
(***************************************************************************)
GatherMcm(m, samples, is_valid, postselect_mode) ==
    LET col == samples[1].v
        n == Len(col)
        hits(b) == Cardinality({i \in 1..n : col[i] = b /\ is_valid[i]})
    IN  CASE m.kind = "ProbabilityMP" ->
               Ok(Vec(<<Rat(hits(0), hits(0) + hits(1)),
                        Rat(hits(1), hits(0) + hits(1))>>))
          [] m.kind = "CountsMP" ->
               GatherNonMcm(m, Column(TRUE, [i \in 1..n |->
                                               Cnt(AsInt(col[i] = 0), AsInt(col[i] = 1))]),
                            is_valid, postselect_mode)
          [] OTHER ->
               GatherNonMcm(m, Column(TRUE, [i \in 1..n |-> Arr(0, <<col[i]>>)]),
                            is_valid, postselect_mode)

(***************************************************************************)
(* A call of gather_mcm with args: measurement, samples and is_valid are   *)
(* required positional parameters; Python raises TypeError for a call that *)
(* leaves one of them unbound, before the body runs.                       *)
(***************************************************************************)
GatherMcmRequired == 3

CallGatherMcm(args) ==
    IF Len(args) < GatherMcmRequired THEN Raise("TypeError")
    ELSE GatherMcm(args[1], args[2], args[3],
                   IF Len(args) > GatherMcmRequired THEN args[4] ELSE "None")

(***************************************************************************)
(* combine_measurements_core, dispatched on the type of the circuit's      *)
(* measurement.  measures is a dictionary branch -> (count, value), here a *)
(* sequence of entries [k, c, v].                                          *)
(***************************************************************************)
WeightedAverage(measures, j) ==
    LET cum == RatSum([i \in DOMAIN measures |->
                          RatScale(measures[i].c, measures[i].v.v[j])])
        total_counts == SumSeq([i \in DOMAIN measures |-> measures[i].c])
    IN  RatDivInt(cum, total_counts)

RECURSIVE Concatenate(_)
Concatenate(arrs) ==
    IF arrs = <<>> THEN <<>> ELSE Head(arrs).v \o Concatenate(Tail(arrs))

CombineMeasurementsCore(m, measures) ==
    CASE m.kind = "CountsMP" ->
            \* Counter.update of a value that is no dictionary (a NaN)
            IF \E i \in DOMAIN measures : measures[i].v.t # "cnt"
            THEN Raise("TypeError")
            ELSE Ok(Cnt(SumSeq([i \in DOMAIN measures |-> measures[i].v.v[1]]),
                        SumSeq([i \in DOMAIN measures |-> measures[i].v.v[2]])))
      [] m.kind = "ExpectationMP" -> Ok(Num(WeightedAverage(measures, 1)))
      [] m.kind = "ProbabilityMP" ->
            Ok(Vec(<<WeightedAverage(measures, 1), WeightedAverage(measures, 2)>>))
      [] m.kind \in {"SampleMP", "VarianceMP"} ->
            \* numpy.concatenate rejects zero-dimensional arrays
            IF \E i \in DOMAIN measures : measures[i].v.nd = 0
            THEN Raise("ValueError")
            ELSE Ok(Squeeze(Arr(1, Concatenate(
                        [i \in DOMAIN measures |-> measures[i].v]))))
      [] OTHER -> Raise("TypeError")

(***************************************************************************)
(* combine_measurements                                                    *)
(***************************************************************************)
\* the conversion of the dictionary of tuples into a list of dictionaries
NewMeasurements(measurements) ==
    IF measurements # <<>> /\ measurements[1].v.t = "tup"
    THEN LET nkeys == Len(measurements)
             nmeas == Len(measurements[1].v.v)
         IN  IF nmeas = 0 THEN [err |-> "none", list |-> <<>>]
             \* "for m0, m1 in zip" over the unpacked ds takes exactly two branches
             ELSE IF nkeys # 2 THEN [err |-> "ValueError", list |-> <<>>]
             ELSE [err |-> "none",
                   list |-> [j \in 1..nmeas |->
                               [i \in 1..2 |->
                                  [k |-> measurements[i].k,
                                   c |-> measurements[i].c,
                                   v |-> measurements[i].v.v[j]]]]]
    ELSE [err |-> "none", list |-> <<measurements>>]

RECURSIVE CombineLoop(_, _, _, _)
\* the loop over circuit.measurements; newm is new_measurements
CombineLoop(meas, newm, msamples, empty) ==
    IF meas = <<>> THEN [err |-> "none", vals |-> <<>>]
    ELSE LET m == Head(meas)
             \* the iterations after this one, whose outcome is step
             Continue(step) ==
                IF step.r.err # "none" THEN [err |-> step.r.err, vals |-> <<>>]
                ELSE LET Prepend(more) ==
                            IF more.err # "none" THEN more
                            ELSE [err |-> "none",
                                  vals |-> <<IF m.kind = "SampleMP"
                                             THEN Squeeze(step.r.val)
                                             ELSE step.r.val>> \o more.vals]
                     IN  Prepend(CombineLoop(Tail(meas), step.rest, msamples, empty))
         IN  Continue(IF m.mv /\ empty
                      THEN [r |-> Ok(MeasurementWithNoShots(m)), rest |-> newm]
                      ELSE IF m.mv
                      \* gather_mcm(circ_meas, mcm_samples)
                      THEN [r |-> CallGatherMcm(<<m, msamples>>), rest |-> newm]
                      ELSE IF newm = <<>> \/ newm[1] = <<>>
                      THEN [r |-> Ok(MeasurementWithNoShots(m)),
                            rest |-> IF newm # <<>> THEN Tail(newm) ELSE newm]
                      ELSE [r |-> CombineMeasurementsCore(m, Head(newm)),
                            rest |-> Tail(newm)])

\* qml.math.var of the pooled samples ("special treatment of var")
VarianceOfPooled(a) == IF a.t = "arr" THEN Num(VarOf(a.v)) ELSE Num(NaN)

CombineMeasurements(c, measurements, msamples) ==
    LET empty_mcm_samples == Len(msamples[1].v) = 0
        Wrap(final) == Ok(IF Len(final) = 1 THEN final[1] ELSE Tup(final))
        Finish(loop) ==
            IF empty_mcm_samples /\ \E i \in DOMAIN msamples : Len(msamples[i].v) # 0
            THEN Raise("ValueError")
            ELSE IF loop.err # "none" THEN Raise(loop.err)
            ELSE Wrap([i \in DOMAIN loop.vals |->
                          IF ~c.meas[i].mv /\ c.meas[i].kind = "VarianceMP"
                          THEN VarianceOfPooled(loop.vals[i]) ELSE loop.vals[i]])
        Loop(nm) ==
            IF nm.err # "none" THEN Raise(nm.err)
            ELSE Finish(CombineLoop(c.meas, nm.list, msamples, empty_mcm_samples))
    IN  Loop(NewMeasurements(measurements))

VARIABLES circuit, pc, path, stack, mcm_active, mcm_samples, result, err,
          leaves, rejected, explored,
          tape, postselect_mode, step, aux_tapes, postprocessing, raw_results,
          final_results, exception, chunks,
          rules, hist, decompositions, lists, log, call,
          script, kwargs, enabled_graph, decomp_graph, pending, new_ops,
          warnings, gen_step, dpc, derr

treeVars == <<circuit, pc, path, stack, mcm_active, mcm_samples, result, err,
              leaves, rejected, explored>>

oneShotVars == <<tape, postselect_mode, step, aux_tapes, postprocessing,
                 raw_results, final_results, exception, chunks>>

registryVars == <<rules, hist, decompositions, lists, log, call>>

decomposeVars == <<script, kwargs, enabled_graph, decomp_graph, pending, new_ops,
                   warnings, gen_step, dpc, derr>>

vars == <<treeVars, oneShotVars, registryVars, decomposeVars>>

\* what an execution of simulate leaves alone
nonTreeVars == <<oneShotVars, registryVars, decomposeVars>>

\* what dynamic_one_shot and its postprocessing leave alone
nonOneShotVars == <<treeVars, registryVars, decomposeVars>>

\* what the decomposition rules and their registry leave alone
nonRegistryVars == <<treeVars, oneShotVars, decomposeVars>>

(***************************************************************************)
(* State of one execution of simulate:                                     *)
(*   circuit      the circuit given to simulate                            *)
(*   pc           "init", "tree" (inside simulate_tree_mcm), "done",       *)
(*                "raised" (an exception left simulate)                     *)
(*   path         the pipeline simulate selected: "tree" or "plain"        *)
(*   stack        the active calls of simulate_tree_mcm, root first        *)
(*   mcm_active, mcm_samples   the two dictionaries of the recursion; one  *)
(*                object each, created by the root call and passed down    *)
(*   result, err  the value returned, or the exception raised              *)
(*   leaves       log of the calls whose circuit has no MCM left: their    *)
(*                shots and the eigenvalues they sampled                   *)
(*   rejected     number of shots dropped by prune_mcm_samples             *)
(*   explored     the (measurement id, outcome) pairs recursed into        *)
(***************************************************************************)
\* The samples of n shots, each 0 or 1.  The shots of one sampling are
\* exchangeable (numpy.unique counts them, the rows of mcm_samples are
\* assigned in order), so one representative per multiset is drawn: the
\* samples in non-decreasing order.
Outcomes(n) ==
    {o \in [1..n -> {0, 1}] : \A i \in 1..(n - 1) : o[i] <= o[i + 1]}

\* values an uninitialised (numpy.empty) integer array may hold
Uninitialised == {0, 1}

\* a call of simulate_tree_mcm: its circuit, its position, and its locals
Frame(c) ==
    [circ |-> c, at |-> "enter", op |-> NoOp, next |-> c,
     counts |-> <<>>, idx |-> 1, subs |-> <<>>]

\* the transform is not in use while simulate runs
OneShotIdle ==
    /\ tape = QuantumScript(<<>>, <<>>, <<>>)
    /\ postselect_mode = "None"
    /\ step = "idle"
    /\ aux_tapes = <<>>
    /\ postprocessing = "none"
    /\ raw_results = <<>>
    /\ final_results = NoResult
    /\ exception = "none"
    /\ chunks = <<>>

\* no call of the decomposition module has been made
NoCall == [fn |-> "none", args |-> <<>>, ret |-> <<>>, err |-> "none"]

RegistryIdle ==
    /\ rules = <<>>
    /\ hist = <<>>
    /\ decompositions = <<>>
    /\ lists = <<>>
    /\ log = <<>>
    /\ call = NoCall

\* decompose has not been called
DecomposeIdle ==
    /\ script = <<>>
    /\ kwargs = <<>>
    /\ enabled_graph = FALSE
    /\ decomp_graph = <<>>
    /\ pending = <<>>
    /\ new_ops = <<>>
    /\ warnings = <<>>
    /\ gen_step = <<>>
    /\ dpc = "idle"
    /\ derr = "none"

Init ==
    /\ RegistryIdle
    /\ DecomposeIdle
    /\ circuit \in {QuantumScript(ops, meas, shots) :
                        ops \in OpLists, meas \in MeasLists, shots \in 0..MaxShots}
    \* an analytic circuit carries state measurements only
    /\ circuit.shots = 0 =>
          \A i \in DOMAIN circuit.meas :
             /\ ~circuit.meas[i].mv
             /\ circuit.meas[i].kind \in {"ExpectationMP", "ProbabilityMP", "VarianceMP"}
    \* a measurement value needs a mid-circuit measurement to refer to
    /\ (\E i \in DOMAIN circuit.meas : circuit.meas[i].mv) =>
          HasMidCircuitMeasurements(circuit)
    /\ pc = "init"
    /\ path = "none"
    /\ stack = <<>>
    /\ mcm_active = <<>>
    /\ mcm_samples = <<>>
    /\ result = NoResult
    /\ err = "none"
    /\ leaves = <<>>
    /\ rejected = 0
    /\ explored = {}
    /\ OneShotIdle

(***************************************************************************)
(* simulate: the tree path for a circuit with finite shots and a           *)
(* MidMeasureMP, otherwise get_final_state and measure_final_state.        *)
(* An analytic measurement is the exact statistic of a state in which the  *)
(* eigenvalue 1 has probability p/2; this is MeasureFinalState on the      *)
(* population <<0, 1>> scaled by p.                                        *)
(***************************************************************************)
Population(p) == CASE p = 0 -> <<0, 0>> [] p = 1 -> <<0, 1>> [] OTHER -> <<1, 1>>

\* variant: the shots of the circuit are not looked at
TakesTreePathIgnoringShots(c) == HasMidCircuitMeasurements(c)

TakesTreePath(c) == c.shots > 0 /\ HasMidCircuitMeasurements(c)

SimulateTree ==
    /\ pc = "init"
    /\ TakesTreePath(circuit)
    /\ pc' = "tree"
    /\ path' = "tree"
    /\ stack' = <<Frame(circuit)>>
    /\ UNCHANGED <<circuit, mcm_active, mcm_samples, result, err, leaves,
                   rejected, explored>>
    /\ UNCHANGED nonTreeVars

SimulatePlain ==
    /\ pc = "init"
    /\ ~TakesTreePath(circuit)
    /\ \E xs \in IF circuit.shots = 0 THEN {Population(p) : p \in 0..2}
                 ELSE Outcomes(circuit.shots) :
          /\ result' = MeasureFinalState(circuit, xs)
          /\ leaves' = <<[shots |-> circuit.shots, xs |-> xs]>>
    /\ pc' = "done"
    /\ path' = "plain"
    /\ UNCHANGED <<circuit, stack, mcm_active, mcm_samples, err, rejected, explored>>
    /\ UNCHANGED nonTreeVars

(***************************************************************************)
(* Returning from a call of simulate_tree_mcm: the root call returns to    *)
(* simulate, any other call to the loop of its parent, which appends the   *)
(* value to its list of measurements.                                      *)
(***************************************************************************)
Top == stack[Len(stack)]

SetTop(f) == [stack EXCEPT ![Len(stack)] = f]

ReturnValue(val) ==
    IF Len(stack) = 1
    THEN /\ stack' = <<>>
         /\ result' = val
         /\ pc' = "done"
    ELSE /\ stack' = [SubSeq(stack, 1, Len(stack) - 1) EXCEPT
                         ![Len(stack) - 1].subs = Append(@, val)]
         /\ result' = result
         /\ pc' = pc

RaiseError(e) ==
    /\ stack' = <<>>
    /\ err' = e
    /\ pc' = "raised"

(***************************************************************************)
(* simulate_tree_mcm on a circuit without MidMeasureMP: the measurements   *)
(* of the circuit on its shots are returned.                               *)
(***************************************************************************)
LeafMeasure ==
    /\ pc = "tree"
    /\ Top.at = "enter"
    /\ CircuitUpToFirstMcm(Top.circ).none
    /\ \E xs \in Outcomes(Top.circ.shots) :
          /\ ReturnValue(MeasureFinalState(Top.circ, xs))
          /\ leaves' = Append(leaves, [shots |-> Top.circ.shots, xs |-> xs])
    /\ UNCHANGED <<circuit, path, mcm_active, mcm_samples, err, rejected, explored>>
    /\ UNCHANGED nonTreeVars

(***************************************************************************)
(* simulate_tree_mcm up to the loop over the branches: the base circuit is *)
(* run and sampled, the samples are recorded by update_mcm_samples and     *)
(* grouped by samples_to_counts.                                           *)
(***************************************************************************)
NodeSample ==
    /\ pc = "tree"
    /\ Top.at = "enter"
    /\ ~CircuitUpToFirstMcm(Top.circ).none
    /\ LET split == CircuitUpToFirstMcm(Top.circ)
           shape == IF mcm_samples = <<>> THEN 0 ELSE Len(mcm_samples[1].v)
       IN  \E samples \in Outcomes(split.base.shots) :
           \E fill \in IF HasKey(mcm_samples, split.op.id) \/ mcm_active = <<>>
                       THEN {[j \in 1..shape |-> 0]}
                       ELSE [1..shape -> Uninitialised] :
              LET upd == UpdateMcmSamples(split.op, samples, mcm_active,
                                          mcm_samples, fill)
              IN  /\ mcm_samples' = upd.d
                  /\ IF upd.err = "none"
                     THEN /\ stack' = SetTop([Top EXCEPT
                                 !.at = "loop", !.op = split.op,
                                 !.next = split.next,
                                 !.counts = SamplesToCounts(samples)])
                          /\ UNCHANGED <<pc, err>>
                     ELSE RaiseError(upd.err)
    /\ UNCHANGED <<circuit, path, mcm_active, result, leaves, rejected, explored>>
    /\ UNCHANGED nonTreeVars

(***************************************************************************)
(* One iteration of "for branch in counts.keys()".                         *)
(***************************************************************************)
Branch(f) == f.counts[f.idx].k

\* variant: the conflicting branch is skipped but its samples are kept
BranchSkipWithoutPruning ==
    /\ pc = "tree"
    /\ Top.at = "loop"
    /\ Top.idx <= Len(Top.counts)
    /\ Top.op.postselect # PSNone /\ Branch(Top) # Top.op.postselect
    /\ rejected' = rejected + Top.counts[Top.idx].c
    /\ stack' = SetTop([Top EXCEPT !.idx = @ + 1])
    /\ UNCHANGED <<circuit, pc, path, mcm_active, mcm_samples, result, err, leaves,
                   explored>>
    /\ UNCHANGED nonTreeVars

\* the branch conflicts with the postselect value: its samples are pruned
BranchPrune ==
    /\ pc = "tree"
    /\ Top.at = "loop"
    /\ Top.idx <= Len(Top.counts)
    /\ Top.op.postselect # PSNone /\ Branch(Top) # Top.op.postselect
    /\ mcm_samples' = PruneMcmSamples(Top.op, Branch(Top), mcm_active, mcm_samples)
    /\ rejected' = rejected + Top.counts[Top.idx].c
    /\ stack' = SetTop([Top EXCEPT !.idx = @ + 1])
    /\ UNCHANGED <<circuit, pc, path, mcm_active, result, err, leaves, explored>>
    /\ UNCHANGED nonTreeVars

\* variant: the continuation gets the shots of the whole node
BranchShotsOfNode(counts, branch) ==
    SumSeq([i \in DOMAIN counts |-> counts[i].c])

\* shots of the continuation circuit in branch_measurement
BranchShots(counts, branch) == Lookup([i \in DOMAIN counts |->
                                         [k |-> counts[i].k, v |-> counts[i].c]], branch)

\* mcm_active[op] = branch, then branch_measurement calls simulate_tree_mcm
BranchRecurse ==
    /\ pc = "tree"
    /\ Top.at = "loop"
    /\ Top.idx <= Len(Top.counts)
    /\ ~(Top.op.postselect # PSNone /\ Branch(Top) # Top.op.postselect)
    /\ mcm_active' = Put(mcm_active, Top.op.id, Branch(Top))
    /\ explored' = explored \cup {<<Top.op.id, Branch(Top)>>}
    /\ stack' = Append(SetTop([Top EXCEPT !.idx = @ + 1]),
                       Frame([Top.next EXCEPT
                                !.shots = BranchShots(Top.counts, Branch(Top))]))
    /\ UNCHANGED <<circuit, pc, path, mcm_samples, result, err, leaves, rejected>>
    /\ UNCHANGED nonTreeVars

(***************************************************************************)
(* After the loop: the dictionary branch -> (count, value) is built by     *)
(* zipping counts.keys(), counts.values() and the list of branch results,  *)
(* and combine_measurements gives the value of the call.                   *)
(***************************************************************************)
ZipMeasurements(counts, subs) ==
    [i \in 1..(IF Len(subs) < Len(counts) THEN Len(subs) ELSE Len(counts)) |->
        [k |-> counts[i].k, c |-> counts[i].c, v |-> subs[i]]]

NodeCombine ==
    /\ pc = "tree"
    /\ Top.at = "loop"
    /\ Top.idx > Len(Top.counts)
    /\ \E r \in {CombineMeasurements(Top.circ, ZipMeasurements(Top.counts, Top.subs),
                                     mcm_samples)} :
          IF r.err = "none"
          THEN ReturnValue(r.val) /\ err' = err
          ELSE RaiseError(r.err) /\ result' = result
    /\ UNCHANGED <<circuit, path, mcm_active, mcm_samples, leaves, rejected, explored>>
    /\ UNCHANGED nonTreeVars

Next ==
    \/ SimulateTree
    \/ SimulatePlain
    \/ LeafMeasure
    \/ NodeSample
    \/ BranchPrune
    \/ BranchRecurse
    \/ NodeCombine

Spec == Init /\ [][Next]_vars

(***************************************************************************)
(* dynamic_one_shot.  A tape is a QuantumScript whose shots are the shot   *)
(* vector in expanded form: <<>> for an analytic tape, <<n>> for n shots,  *)
(* <<s_1, ..., s_m>> for partitioned shots.                                *)
(***************************************************************************)
MaxOneShots == 3

is_mcm(operation) == operation.kind = "MidMeasureMP"

\* variant: the state measurement is accepted as well
SupportedOrState(m) ==
    m.kind \in {"CountsMP", "ExpectationMP", "ProbabilityMP", "SampleMP", "VarianceMP",
                "StateMP"}

Supported(m) ==
    m.kind \in {"CountsMP", "ExpectationMP", "ProbabilityMP", "SampleMP", "VarianceMP"}

TotalShots(c) == SumSeq(c.shots)

HasPartitionedShots(c) == Len(c.shots) > 1

OneShotOpLists ==
    {<<Gate(1)>>,
     <<MidMeasureMP(1, PSNone)>>,
     <<MidMeasureMP(1, 1)>>,
     <<MidMeasureMP(1, PSNone), MidMeasureMP(2, 1)>>,
     <<MidMeasureMP(1, 0), Gate(2), MidMeasureMP(3, 1)>>}

OneShotMeasLists ==
    {<<MP("ExpectationMP", FALSE), MP("ProbabilityMP", FALSE),
       MP("SampleMP", FALSE), MP("VarianceMP", FALSE)>>,
     <<MP("CountsMP", FALSE)>>,
     <<MP("ExpectationMP", TRUE)>>,
     <<MP("CountsMP", TRUE), MP("ExpectationMP", FALSE), MP("ProbabilityMP", TRUE)>>,
     <<MP("StateMP", FALSE)>>,
     <<MP("ExpectationMP", FALSE), MP("StateMP", FALSE)>>}

ShotVectors ==
    UNION {{sv \in [1..n -> 1..MaxOneShots] : SumSeq(sv) <= MaxOneShots} :
              n \in 0..MaxOneShots}

PostselectModes == {"None", "pad-invalid-samples"}

(***************************************************************************)
(* init_auxiliary_tape: the measurements without measurement value (a      *)
(* VarianceMP replaced by a SampleMP), then one sample of the measurement  *)
(* value of each MidMeasureMP; shots = [1] * total_shots.                  *)
(***************************************************************************)
RECURSIVE McmSamples(_)
McmSamples(ops) ==
    IF ops = <<>> THEN <<>>
    ELSE (IF is_mcm(Head(ops)) THEN <<MP("SampleMP", TRUE)>> ELSE <<>>)
         \o McmSamples(Tail(ops))

\* variant: the auxiliary tape keeps the shots of the circuit
InitAuxiliaryTapeKeepShots(c) ==
    QuantumScript(c.ops, NextMeasurements(c.meas) \o McmSamples(c.ops), c.shots)

InitAuxiliaryTape(c) ==
    QuantumScript(c.ops, NextMeasurements(c.meas) \o McmSamples(c.ops),
                  [i \in 1..TotalShots(c) |-> 1])

(***************************************************************************)
(* The results of one execution of the auxiliary tape: one result per      *)
(* shot.  In a shot the device samples the eigenvalue x of the observable  *)
(* and the outcome of each MidMeasureMP; the result of the shot is the     *)
(* value of the only measurement of the tape, or the tuple of the values   *)
(* of its measurements.  ix, x and mcm record the position of the shot and *)
(* what was sampled.                                                       *)
(***************************************************************************)
McmCount(c) == Cardinality({i \in DOMAIN c.ops : is_mcm(c.ops[i])})

ShotResult(aux, x, mcm) ==
    LET first == Len(aux.meas) - Len(mcm)
        val(j) == IF j <= first THEN MeasureOne(aux.meas[j], <<x>>)
                  ELSE Arr(0, <<mcm[j - first]>>)
    IN  IF Len(aux.meas) = 1 THEN val(1)
        ELSE Tup([j \in DOMAIN aux.meas |-> val(j)])

Executions(aux) ==
    LET n == Len(aux.shots)
        k == McmCount(aux)
        \* without a measurement of the observable no eigenvalue is sampled
        xs == IF Len(aux.meas) > k THEN {0, 1} ELSE {0}
    IN  {[i \in 1..n |-> [ix |-> i, x |-> s[i].x, mcm |-> s[i].mcm,
                          r |-> ShotResult(aux, s[i].x, s[i].mcm)]] :
            s \in [1..n -> [x : xs, mcm : [1..k -> {0, 1}]]]}

(***************************************************************************)
(* reshape_data: squeeze(vstack(array)) of the values one measurement took *)
(* in the shots.  With one shot the shot axis is squeezed away.            *)
(***************************************************************************)
ReshapeData(array) == Column(Len(array) > 1, array)

(***************************************************************************)
(* parse_native_mid_circuit_measurements.  res is the list of columns, one *)
(* per measurement of the auxiliary tape.                                  *)
(***************************************************************************)
RECURSIVE Operations(_)
\* [op for op in operations if is_mcm(op)]
Operations(ops) ==
    IF ops = <<>> THEN <<>>
    ELSE (IF is_mcm(Head(ops)) THEN <<Head(ops)>> ELSE <<>>) \o Operations(Tail(ops))

\* variant: the samples are compared without the has_postselect mask
IsValidNoMask(cols, all_mcms, i) ==
    \A k \in DOMAIN all_mcms :
        cols[k][i] = (IF all_mcms[k].postselect = PSNone THEN 0
                      ELSE all_mcms[k].postselect)

\* all(mcm_samples * has_postselect == postselect, axis=1), row i
IsValid(cols, all_mcms, i) ==
    \A k \in DOMAIN all_mcms :
        cols[k][i] * AsInt(all_mcms[k].postselect # PSNone)
            = (IF all_mcms[k].postselect = PSNone THEN 0
               ELSE all_mcms[k].postselect)

RECURSIVE ParseLoop(_, _, _, _, _, _)
\* the loop over circuit.measurements; m_count is the column of the next
\* measurement without measurement value
ParseLoop(meas, m_count, res, msamples, is_valid, mode) ==
    IF meas = <<>> THEN [err |-> "none", vals |-> <<>>]
    ELSE LET m == Head(meas)
             has_valid == \E i \in DOMAIN is_valid : is_valid[i]
             \* the iterations after this one, which gave r
             Continue(r) ==
                IF r.err # "none" THEN [err |-> r.err, vals |-> <<>>]
                ELSE LET Prepend(more) ==
                            IF more.err # "none" THEN more
                            ELSE [err |-> "none",
                                  vals |-> <<IF m.kind = "SampleMP"
                                             THEN Squeeze(r.val) ELSE r.val>>
                                           \o more.vals]
                     IN  Prepend(ParseLoop(Tail(meas),
                                           IF m.mv THEN m_count ELSE m_count + 1,
                                           res, msamples, is_valid, mode))
         IN  Continue(IF ~Supported(m) THEN Raise("TypeError")
                      ELSE IF m.mv /\ ~has_valid THEN Ok(MeasurementWithNoShots(m))
                      ELSE IF m.mv THEN GatherMcm(m, msamples, is_valid, mode)
                      ELSE IF ~has_valid THEN Ok(MeasurementWithNoShots(m))
                      ELSE GatherNonMcm(m, res[m_count], is_valid, mode))

\* results[-n_mcms:], each reshaped to one row per shot
McmColumns(res, n_mcms) ==
    [k \in 1..n_mcms |->
        [i \in DOMAIN res[Len(res) - n_mcms + 1].v |->
            res[Len(res) - n_mcms + k].v[i].v[1]]]

ParseNativeMidCircuitMeasurements(c, auxs, res, mode) ==
    LET Return(loop) ==
            IF loop.err # "none" THEN Raise(loop.err)
            ELSE Ok(IF Len(loop.vals) > 1 THEN Tup(loop.vals) ELSE loop.vals[1])
        Measurements(all_mcms, mid_meas, cols) ==
            Return(ParseLoop(c.meas, 1, res,
                             [k \in DOMAIN cols |-> [k |-> mid_meas[k].id, v |-> cols[k]]],
                             [i \in DOMAIN cols[1] |-> IsValid(cols, all_mcms, i)],
                             mode))
        Samples(all_mcms) ==
            Measurements(all_mcms, Operations(c.ops), McmColumns(res, Len(all_mcms)))
    IN  Samples(Operations(auxs[1].ops))

(***************************************************************************)
(* processing_fn.  Combine is the part after the shot-vector treatment:    *)
(* the per-shot results are transposed into one column per measurement of  *)
(* the auxiliary tape and handed to parse_native_mid_circuit_measurements. *)
(***************************************************************************)
Combine(c, auxs, shots_results, mode) ==
    LET is_scalar == shots_results[1].r.t # "tup"
        n == Len(shots_results)
        res == IF is_scalar
               THEN <<ReshapeData([i \in 1..n |-> shots_results[i].r])>>
               ELSE [j \in DOMAIN shots_results[1].r.v |->
                        ReshapeData([i \in 1..n |-> shots_results[i].r.v[j]])]
    IN  \* results[0] of an empty list
        IF shots_results = <<>> THEN Raise("IndexError")
        ELSE ParseNativeMidCircuitMeasurements(c, auxs, res, mode)

Min(a, b) == IF a < b THEN a ELSE b

RECURSIVE PartitionNoDel(_, _)
\* variant: the slice is not deleted after it was processed
PartitionNoDel(rs, shots) ==
    IF shots = <<>> THEN <<>>
    ELSE <<SubSeq(rs, 1, Min(Head(shots), Len(rs)))>>
         \o PartitionNoDel(rs, Tail(shots))

RECURSIVE Partition(_, _)
\* "for s in tape.shots": results[0:s] is processed, then del results[0:s]
Partition(rs, shots) ==
    IF shots = <<>> THEN <<>>
    ELSE <<SubSeq(rs, 1, Min(Head(shots), Len(rs)))>>
         \o Partition(SubSeq(rs, Min(Head(shots), Len(rs)) + 1, Len(rs)), Tail(shots))

RECURSIVE CombineEach(_, _, _, _)
\* the recursive calls of the loop, in order; an exception ends the loop.
\* done lists the slices that were handed to a call.
CombineEach(c, auxs, parts, mode) ==
    IF parts = <<>> THEN [err |-> "none", vals |-> <<>>, done |-> <<>>]
    ELSE LET Continue(r) ==
                IF r.err # "none"
                THEN [err |-> r.err, vals |-> <<>>, done |-> <<Head(parts)>>]
                ELSE LET Prepend(more) ==
                            [err |-> more.err,
                             vals |-> <<r.val>> \o more.vals,
                             done |-> <<Head(parts)>> \o more.done]
                     IN  Prepend(CombineEach(c, auxs, Tail(parts), mode))
         IN  Continue(Combine(c, auxs, Head(parts), mode))

\* the value of processing_fn(results) and the slices it combined
ProcessingFnValue(c, auxs, batch_results, mode) ==
    IF HasPartitionedShots(c)
    THEN LET Return(each) ==
                [r |-> IF each.err # "none" THEN Raise(each.err)
                       ELSE Ok(Tup(each.vals)),
                 done |-> each.done]
         IN  Return(CombineEach(c, auxs, Partition(batch_results[1], c.shots), mode))
    ELSE [r |-> Combine(c, auxs, batch_results[1], mode),
          done |-> <<batch_results[1]>>]

(***************************************************************************)
(* State of one use of the transform:                                      *)
(*   tape, postselect_mode   the arguments of dynamic_one_shot             *)
(*   step            "init", "transformed" (batch and function returned),  *)
(*                   "done" (the function returned), "raised"              *)
(*   aux_tapes, postprocessing   the batch and the function returned       *)
(*   raw_results     the results of the batch handed to the function       *)
(*   final_results, exception    what the function returned or what was    *)
(*                   raised                                                 *)
(*   chunks          positions (ix) of the shots in each slice combined    *)
(***************************************************************************)
TreeIdle ==
    /\ circuit = QuantumScript(<<>>, <<>>, 0)
    /\ pc = "idle"
    /\ path = "none"
    /\ stack = <<>>
    /\ mcm_active = <<>>
    /\ mcm_samples = <<>>
    /\ result = NoResult
    /\ err = "none"
    /\ leaves = <<>>
    /\ rejected = 0
    /\ explored = {}

InitOneShot ==
    /\ RegistryIdle
    /\ DecomposeIdle
    /\ tape \in {QuantumScript(ops, meas, shots) :
                    ops \in OneShotOpLists, meas \in OneShotMeasLists,
                    shots \in ShotVectors}
    \* a measurement value needs a mid-circuit measurement to refer to
    /\ (\E i \in DOMAIN tape.meas : tape.meas[i].mv) =>
          \E i \in DOMAIN tape.ops : is_mcm(tape.ops[i])
    /\ postselect_mode \in PostselectModes
    \* only the SampleMP case of gather_non_mcm reads the mode
    /\ postselect_mode # "None" =>
          \E i \in DOMAIN tape.meas : tape.meas[i].kind = "SampleMP"
    /\ step = "init"
    /\ aux_tapes = <<>>
    /\ postprocessing = "none"
    /\ raw_results = <<>>
    /\ final_results = NoResult
    /\ exception = "none"
    /\ chunks = <<>>
    /\ TreeIdle

DynamicOneShot ==
    /\ step = "init"
    /\ IF ~\E i \in DOMAIN tape.ops : is_mcm(tape.ops[i])
       THEN /\ aux_tapes' = <<tape>>
            /\ postprocessing' = "null_postprocessing"
            /\ step' = "transformed"
            /\ UNCHANGED exception
       ELSE IF \E i \in DOMAIN tape.meas : ~Supported(tape.meas[i])
       THEN /\ exception' = "TypeError"
            /\ step' = "raised"
            /\ UNCHANGED <<aux_tapes, postprocessing>>
       ELSE IF TotalShots(tape) = 0
       THEN /\ exception' = "QuantumFunctionError"
            /\ step' = "raised"
            /\ UNCHANGED <<aux_tapes, postprocessing>>
       ELSE /\ aux_tapes' = <<InitAuxiliaryTape(tape)>>
            /\ postprocessing' = "processing_fn"
            /\ step' = "transformed"
            /\ UNCHANGED exception
    /\ UNCHANGED <<tape, postselect_mode, raw_results, final_results, chunks>>
    /\ UNCHANGED nonOneShotVars

\* null_postprocessing(results) = results[0], for any result of the tape
NullPostprocessing ==
    /\ step = "transformed"
    /\ postprocessing = "null_postprocessing"
    /\ \E x \in {0, 1} : raw_results' = <<Num(Rat(x, 1))>>
    /\ final_results' = raw_results'[1]
    /\ step' = "done"
    /\ UNCHANGED <<tape, postselect_mode, aux_tapes, postprocessing, exception, chunks>>
    /\ UNCHANGED nonOneShotVars

\* the batch is executed and processing_fn is applied to its results
ProcessingFn ==
    /\ step = "transformed"
    /\ postprocessing = "processing_fn"
    /\ \E shots_results \in Executions(aux_tapes[1]) :
       \E out \in {ProcessingFnValue(tape, aux_tapes, <<shots_results>>,
                                      postselect_mode)} :
          /\ raw_results' = <<shots_results>>
          /\ chunks' = [k \in DOMAIN out.done |->
                          [i \in DOMAIN out.done[k] |-> out.done[k][i].ix]]
          /\ final_results' = out.r.val
          /\ exception' = out.r.err
          /\ step' = IF out.r.err = "none" THEN "done" ELSE "raised"
    /\ UNCHANGED <<tape, postselect_mode, aux_tapes, postprocessing>>
    /\ UNCHANGED nonOneShotVars

NextOneShot ==
    \/ DynamicOneShot
    \/ NullPostprocessing
    \/ ProcessingFn

SpecOneShot == InitOneShot /\ [][NextOneShot]_vars

(***************************************************************************)
(* Quantities the properties of the tree simulator speak about.            *)
(***************************************************************************)
TreeReturned == pc = "done" /\ path = "tree"

TreeEnded == pc \in {"done", "raised"} /\ path = "tree"

\* sum of the shot counts of the leaf calls made so far
LeafShots == SumSeq([i \in DOMAIN leaves |-> leaves[i].shots])

\* number of leaf shots made so far that sampled the eigenvalue 1
LeafOnes == SumSeq([i \in DOMAIN leaves |-> SumSeq(leaves[i].xs)])

\* all samples of the leaf calls, in the order of the calls
PooledSamples == Concatenate([i \in DOMAIN leaves |-> [v |-> leaves[i].xs]])

\* shots a call in progress has not yet handed to a branch
PendingShots(f) ==
    IF f.at = "enter" THEN f.circ.shots
    ELSE SumSeq([i \in 1..Len(f.counts) |-> IF i >= f.idx THEN f.counts[i].c ELSE 0])

OnlyMeasurement(kinds) ==
    /\ Len(circuit.meas) = 1
    /\ circuit.meas[1].kind \in kinds
    /\ ~circuit.meas[1].mv

(***************************************************************************)
(* C1. Shot conservation in simulate_tree_mcm: at every node the           *)
(* per-outcome counts sum to the shot count of the node, and the shots of  *)
(* the leaf calls, the shots rejected by postselection and the shots of    *)
(* the branches still to be explored always add up to the N shots of the   *)
(* circuit; on return the leaf shots sum to N minus the rejected shots.    *)
(***************************************************************************)
ShotConservation ==
    (path = "tree" /\ pc \in {"tree", "done"}) =>
        /\ \A i \in DOMAIN stack :
              stack[i].at = "loop" =>
                 SumSeq([j \in DOMAIN stack[i].counts |-> stack[i].counts[j].c])
                    = stack[i].circ.shots
        /\ LeafShots + rejected
              + SumSeq([i \in DOMAIN stack |-> PendingShots(stack[i])])
              = circuit.shots

ShotConservationWitness ==
    /\ TreeReturned
    /\ rejected > 0
    /\ Len(leaves) >= 2
    /\ LeafShots = circuit.shots - rejected

(***************************************************************************)
(* C2. Postselection pruning: simulate_tree_mcm recurses into a branch of  *)
(* a postselected measurement only when the outcome is the postselect      *)
(* value, and once the root call has returned all arrays of mcm_samples    *)
(* have the same rows, each with the postselect value in the array of      *)
(* every postselected measurement.                                         *)
(***************************************************************************)
PostselectionPruning ==
    /\ \A e \in explored :
          circuit.ops[e[1]].postselect \in {PSNone, e[2]}
    /\ TreeReturned =>
          \A i \in DOMAIN mcm_samples :
             /\ Len(mcm_samples[i].v) = Len(mcm_samples[1].v)
             /\ circuit.ops[mcm_samples[i].k].postselect # PSNone =>
                   \A j \in DOMAIN mcm_samples[i].v :
                      mcm_samples[i].v[j] = circuit.ops[mcm_samples[i].k].postselect

PostselectionPruningWitness ==
    /\ TreeReturned
    /\ rejected > 0
    /\ Len(mcm_samples) = 2
    /\ Len(mcm_samples[1].v) > 0
    /\ circuit.ops[mcm_samples[2].k].postselect # PSNone

(***************************************************************************)
(* C3 (as claimed). The expectation or probability returned for the whole  *)
(* circuit is the average of the leaf values weighted by the leaf shot     *)
(* counts, divided by the number of valid shots: the number of valid shots *)
(* with eigenvalue 1 over the number of valid shots.                       *)
(***************************************************************************)
LeafWeightedAverage ==
    (TreeReturned /\ OnlyMeasurement({"ExpectationMP", "ProbabilityMP"})) =>
        result = IF circuit.meas[1].kind = "ExpectationMP"
                 THEN Num(Rat(LeafOnes, LeafShots))
                 ELSE Vec(<<Rat(LeafShots - LeafOnes, LeafShots),
                            Rat(LeafOnes, LeafShots)>>)

(***************************************************************************)
(* C4. simulate takes the tree path exactly when the circuit has finite    *)
(* shots and a MidMeasureMP among its operations; otherwise its result is  *)
(* measure_final_state of the final state of the whole circuit, and the    *)
(* dictionaries of the tree simulator are never touched.                   *)
(***************************************************************************)
TreePathSelection ==
    /\ pc # "init" =>
          (path = "tree" <=>
              /\ circuit.shots # 0
              /\ \E i \in DOMAIN circuit.ops : circuit.ops[i].kind = "MidMeasureMP")
    /\ (pc # "init" /\ path # "tree") =>
          /\ pc = "done" /\ path = "plain"
          /\ Len(leaves) = 1
          /\ leaves[1].shots = circuit.shots
          /\ result = MeasureFinalState(circuit, leaves[1].xs)
          /\ mcm_samples = <<>> /\ mcm_active = <<>>

TreePathSelectionWitness ==
    /\ pc = "done"
    /\ path = "plain"
    /\ circuit.shots = 0
    /\ \E i \in DOMAIN circuit.ops : circuit.ops[i].kind = "MidMeasureMP"

(***************************************************************************)
(* C5. When postselection rejects every shot at the root (no branch is     *)
(* explored), simulate_tree_mcm raises nothing and returns one NaN         *)
(* placeholder per circuit measurement, in order: a vector of NaN with one *)
(* entry per eigenvalue for a probability, a scalar NaN otherwise.         *)
(***************************************************************************)
NaNPlaceholder(m) ==
    IF m.kind = "ProbabilityMP"
    THEN [t |-> "vec", nd |-> 1, v |-> <<[n |-> 0, d |-> 0], [n |-> 0, d |-> 0]>>]
    ELSE [t |-> "num", nd |-> 0, v |-> <<[n |-> 0, d |-> 0]>>]

AllRejectedGivesNaN ==
    (TreeEnded /\ explored = {}) =>
        /\ pc = "done"
        /\ err = "none"
        /\ \A i \in DOMAIN mcm_samples : mcm_samples[i].v = <<>>
        /\ result = IF Len(circuit.meas) = 1 THEN NaNPlaceholder(circuit.meas[1])
                    ELSE Tup([i \in DOMAIN circuit.meas |->
                                 NaNPlaceholder(circuit.meas[i])])

AllRejectedGivesNaNWitness ==
    /\ TreeReturned
    /\ explored = {}
    /\ rejected = circuit.shots
    /\ Len(circuit.meas) = 2
    /\ circuit.meas[2].kind = "ProbabilityMP"

(***************************************************************************)
(* C6 (as claimed). A measurement tied to a mid-circuit measurement value  *)
(* is resolved at the root by the call gather_mcm(circ_meas, mcm_samples), *)
(* which returns the statistic of the value over the recorded samples: for *)
(* an expectation, the mean of the recorded outcomes.                      *)
(***************************************************************************)
McmValueFromSamples ==
    (/\ TreeEnded
     /\ circuit.meas = <<MP("ExpectationMP", TRUE)>>
     /\ mcm_samples # <<>>
     /\ mcm_samples[1].v # <<>>) =>
        /\ pc = "done"
        /\ result = Num(Rat(SumSeq(mcm_samples[1].v), Len(mcm_samples[1].v)))

(***************************************************************************)
(* C7 (as claimed). For a variance measurement the samples of all explored *)
(* branches are concatenated and the variance is computed once, at the     *)
(* root, over the pooled samples of all valid shots.                       *)
(***************************************************************************)
VarianceOverPooledSamples ==
    (TreeEnded /\ OnlyMeasurement({"VarianceMP"})) =>
        /\ pc = "done"
        /\ result = Num(VarOf(PooledSamples))

(***************************************************************************)
(* Quantities the properties of the one-shot transform speak about.        *)
(***************************************************************************)
OneShotReturned == step = "done" /\ postprocessing = "processing_fn"

\* the tape is one dynamic_one_shot transforms into an auxiliary tape
OneShotTape ==
    /\ \E i \in DOMAIN tape.ops : tape.ops[i].kind = "MidMeasureMP"
    /\ \A i \in DOMAIN tape.meas :
          tape.meas[i].kind \in {"CountsMP", "ExpectationMP", "ProbabilityMP",
                                 "SampleMP", "VarianceMP"}
    /\ SumSeq(tape.shots) > 0

\* postselect value of the k-th mid-circuit measurement of the tape
PostselectOf(k) == Operations(tape.ops)[k].postselect

ShotIsValid(s) ==
    \A k \in DOMAIN s.mcm : PostselectOf(k) # PSNone => s.mcm[k] = PostselectOf(k)

\* the valid shots of the execution, in order
ValidShots ==
    SelectIdx(raw_results[1],
              [i \in DOMAIN raw_results[1] |-> ShotIsValid(raw_results[1][i])], 1)

\* what measurement m observed in the valid shots: the eigenvalue sampled,
\* or the outcome of the mid-circuit measurement its value refers to
ValidValues(m) ==
    [i \in DOMAIN ValidShots |->
        IF m.mv THEN ValidShots[i].mcm[1] ELSE ValidShots[i].x]

\* the statistic of measurement m over the valid shots alone
StatisticOfValid(m) ==
    LET Statistic(xs, n, ones) ==
            CASE n = 0 -> NaNPlaceholder(m)
              [] m.kind = "ExpectationMP" -> Num(Rat(ones, n))
              [] m.kind = "ProbabilityMP" -> Vec(<<Rat(n - ones, n), Rat(ones, n)>>)
              [] m.kind = "VarianceMP" -> Num(Rat(n * ones - ones * ones, n * n))
              [] m.kind = "CountsMP" -> Cnt(n - ones, ones)
              [] OTHER -> Arr(IF n = 1 THEN 0 ELSE 1, xs)
        Of(xs) == Statistic(xs, Len(xs), SumSeq(xs))
    IN  Of(ValidValues(m))

(***************************************************************************)
(* C8. One-shot reassembly in the default mode: a shot is valid iff its    *)
(* recorded outcome equals the postselect value at every mid-circuit       *)
(* measurement that has one, and every statistic the postprocessing        *)
(* function returns is the statistic of the valid shots alone: expectation,*)
(* probability and variance are sums over the valid shots divided by their *)
(* number, counts count the valid shots, samples are those of the valid    *)
(* shots (NaN placeholders when no shot is valid).                         *)
(***************************************************************************)
ValidShotsOnly ==
    (OneShotReturned /\ Len(tape.shots) = 1 /\ postselect_mode = "None") =>
        final_results =
            IF Len(tape.meas) = 1 THEN StatisticOfValid(tape.meas[1])
            ELSE Tup([i \in DOMAIN tape.meas |-> StatisticOfValid(tape.meas[i])])

ValidShotsOnlyWitness ==
    /\ OneShotReturned
    /\ postselect_mode = "None"
    /\ tape.shots = <<3>>
    /\ Len(tape.meas) = 4
    /\ tape.ops = <<MidMeasureMP(1, PSNone), MidMeasureMP(2, 1)>>
    /\ Len(ValidShots) = 2
    /\ \E i \in DOMAIN ValidShots : ValidShots[i].mcm[1] = 1
    /\ \E i \in DOMAIN raw_results[1] :
          ~ShotIsValid(raw_results[1][i]) /\ raw_results[1][i].x = 1

HasShapeOfMeasurements(r) ==
    IF Len(tape.meas) = 1 THEN r.t # "tup"
    ELSE r.t = "tup" /\ Len(r.v) = Len(tape.meas)

Offset(k) == SumSeq(SubSeq(tape.shots, 1, k - 1))

ShotVectorPartition ==
    (postprocessing = "processing_fn" /\ Len(tape.shots) > 1
        /\ step \in {"done", "raised"}) =>
        /\ \A k \in DOMAIN chunks :
              chunks[k] = [i \in 1..tape.shots[k] |-> Offset(k) + i]
        /\ step = "done" =>
              /\ Len(chunks) = Len(tape.shots)
              /\ final_results.t = "tup"
              /\ Len(final_results.v) = Len(tape.shots)
              /\ \A k \in DOMAIN tape.shots :
                    Ok(final_results.v[k])
                       = Combine(tape, aux_tapes,
                                 SubSeq(raw_results[1], Offset(k) + 1,
                                        Offset(k) + tape.shots[k]),
                                 postselect_mode)

ShotVectorPartitionWitness ==
    /\ OneShotReturned
    /\ tape.shots = <<1, 2>>
    /\ chunks = <<(<<1>>), (<<2, 3>>)>>
    /\ final_results.t = "tup"
    /\ Len(final_results.v) = 2
    /\ final_results.v[1] # final_results.v[2]

\* C11: once dynamic_one_shot has run on a tape with a mid-circuit measurement
\* and a terminal measurement that is not a Counts, Expectation, Probability,
\* Sample or Variance measurement, it has raised TypeError and built no
\* auxiliary tape, whatever the shots of the tape are (none included).
HasUnsupportedMeasurement ==
    \E i \in DOMAIN tape.meas :
        tape.meas[i].kind \notin {"CountsMP", "ExpectationMP", "ProbabilityMP",
                                  "SampleMP", "VarianceMP"}

UnsupportedMeasurementRaises ==
    (/\ step \notin {"idle", "init"}
     /\ \E i \in DOMAIN tape.ops : tape.ops[i].kind = "MidMeasureMP"
     /\ HasUnsupportedMeasurement)
        => /\ step = "raised"
           /\ exception = "TypeError"
           /\ aux_tapes = <<>>
           /\ postprocessing = "none"

UnsupportedMeasurementRaisesWitness ==
    /\ step = "raised"
    /\ exception = "TypeError"
    /\ tape.shots = <<>>
    /\ Len(tape.meas) = 2
    /\ tape.meas[1].kind = "ExpectationMP"
    /\ \E i \in DOMAIN tape.ops : tape.ops[i].kind = "MidMeasureMP"

(***************************************************************************)
(* Decomposition rules (decomposition_rule.py).                            *)
(*                                                                         *)
(* A key of a resource dictionary is an Operator subclass, a               *)
(* CompressedResourceOp built with resource_rep, or any other object.      *)
(* A dictionary is the sequence of its items in insertion order.           *)
(***************************************************************************)
MaxRegistrations == 2

Operator(name) == [kind |-> "type", name |-> name, params |-> <<>>]

CompressedResourceOp(name, params) == [kind |-> "rep", name |-> name, params |-> params]

NotAnOperator == [kind |-> "other", name |-> "int", params |-> <<>>]

\* Operator.resource_keys: MultiRZ declares num_wires, the others nothing
resource_keys(name) == IF name = "MultiRZ" THEN {"num_wires"} ELSE {}

Item(k, v) == [k |-> k, v |-> v]

Fail(e, val) == [err |-> e, val |-> val]

\* resource_rep(op_type) without parameters
resource_rep(op_type) ==
    IF resource_keys(op_type.name) # {}
    THEN Fail("TypeError", op_type)
    ELSE Ok(CompressedResourceOp(op_type.name, <<>>))

AutoWrap(op_type) ==
    IF op_type.kind = "rep" THEN Ok(op_type)
    ELSE IF op_type.kind # "type" THEN Fail("TypeError", op_type)
    ELSE resource_rep(op_type)

\* variant: a repeated key replaces the count instead of adding to it
CounterUpdateReplace(counter, k, n) == Put(counter, k, n)

\* Counter.update({k: n})
CounterUpdate(counter, k, n) ==
    IF HasKey(counter, k) THEN Put(counter, k, Lookup(counter, k) + n)
    ELSE Put(counter, k, n)

\* Resources(gate_counts)
Resources(gate_counts) == [gate_counts |-> gate_counts]

\* the values given as "resources" to register_resources / DecompositionRule
NoResources == [kind |-> "none", dict |-> <<>>, fn |-> ""]

StaticDict(d) == [kind |-> "dict", dict |-> d, fn |-> ""]

ResourceFunction(fn) == [kind |-> "callable", dict |-> <<>>, fn |-> fn]

StaticDicts ==
    {<<>>,
     <<Item(Operator("Hadamard"), 2), Item(Operator("CZ"), 1)>>,
     <<Item(Operator("Hadamard"), 1), Item(CompressedResourceOp("Hadamard", <<>>), 1)>>,
     <<Item(Operator("Hadamard"), 0), Item(Operator("CZ"), 1)>>,
     <<Item(CompressedResourceOp("MultiRZ", <<2>>), 1), Item(Operator("MultiRZ"), 1)>>,
     <<Item(Operator("CZ"), 1), Item(NotAnOperator, 1)>>,
     <<Item(NotAnOperator, 0)>>}

ResourceFunctions == {"by_num_wires", "returns_list"}

ResourceArgs ==
    {StaticDict(d) : d \in StaticDicts} \cup {ResourceFunction(f) : f \in ResourceFunctions}

\* the arguments a rule is called with: the resource parameters of an operator
RuleArgs == {[num_wires |-> n] : n \in 1..2}

Conditions == {"single_wire"}

\* resource_fn(*_, **__), the closure DecompositionRule makes of a dictionary
ResourceFn(resources) == [kind |-> "resource_fn", dict |-> resources.dict, fn |-> ""]

\* the private attribute _compute_resources set by __init__ and set_resources
SetResources(resources) ==
    IF resources.kind = "dict" THEN ResourceFn(resources) ELSE resources

\* DecompositionRule.set_condition
set_condition(rule, condition) == [rule EXCEPT !.condition = condition]

\* DecompositionRule.set_resources
set_resources(rule, resources) ==
    [rule EXCEPT !.compute_resources = SetResources(resources)]

\* DecompositionRule.__init__(func, resources, condition)
DecompositionRule(func, resources, condition) ==
    [impl |-> func, compute_resources |-> SetResources(resources),
     condition |-> condition]

\* self._compute_resources(*args, **kwargs): the value returned, a dictionary or not
RawGateCounts(compute_resources, args) ==
    IF compute_resources.kind = "resource_fn"
    THEN [isdict |-> TRUE, items |-> compute_resources.dict]
    ELSE IF compute_resources.fn = "by_num_wires"
    THEN [isdict |-> TRUE,
          items |-> <<Item(Operator("CZ"), args.num_wires - 1),
                      Item(Operator("Hadamard"), 2)>>]
    ELSE [isdict |-> FALSE, items |-> <<>>]

\* "for op, count in raw_gate_counts.items()" of compute_resources
RECURSIVE GateCounter(_, _)
GateCounter(items, gate_counter) ==
    IF items = <<>> THEN Ok(gate_counter)
    ELSE LET Wrapped(w, count, rest) ==
                 IF w.err # "none" THEN Fail(w.err, <<>>)
                 ELSE GateCounter(rest, CounterUpdate(gate_counter, w.val, count))
             Step(op, count, rest) ==
                 IF count > 0 THEN Wrapped(AutoWrap(op), count, rest)
                 ELSE GateCounter(rest, gate_counter)
         IN  Step(Head(items).k, Head(items).v, Tail(items))

\* DecompositionRule.compute_resources; assertions tells whether the
\* interpreter executes assert statements
ComputeResourcesOf(rule, args, assertions) ==
    IF rule.compute_resources.kind = "none"
    THEN Fail("NotImplementedError", Resources(<<>>))
    ELSE LET Counted(c) ==
                 IF c.err # "none" THEN Fail(c.err, Resources(<<>>))
                 ELSE Ok(Resources(c.val))
             Check(raw) ==
                 IF ~raw.isdict
                 THEN Fail(IF assertions THEN "AssertionError" ELSE "AttributeError",
                           Resources(<<>>))
                 ELSE Counted(GateCounter(raw.items, <<>>))
         IN  Check(RawGateCounts(rule.compute_resources, args))

\* DecompositionRule.is_applicable
IsApplicableOf(rule, args) ==
    IF rule.condition = "None" THEN TRUE
    ELSE args.num_wires = 1

(***************************************************************************)
(* register_resources and register_condition.  The rules are objects of a  *)
(* heap; the target of a decorator is a plain quantum function or a rule   *)
(* of the heap.                                                            *)
(***************************************************************************)
Qfunc(name) == [isrule |-> FALSE, id |-> 0, name |-> name]

RuleRef(id) == [isrule |-> TRUE, id |-> id, name |-> ""]

Qfuncs == {"my_cnot"}

Returned(heap, ret) == [heap |-> heap, ret |-> ret]

\* variant: the decorator always wraps its target in a new rule
RegisterConditionWrapping(heap, condition, target) ==
    Returned(Append(heap, DecompositionRule(
                 IF target.isrule THEN heap[target.id].impl ELSE target.name,
                 NoResources, condition)),
             Len(heap) + 1)

\* register_condition(condition, qfunc) and register_condition(condition)(qfunc)
RegisterConditionOf(heap, condition, target) ==
    IF target.isrule
    THEN Returned([heap EXCEPT ![target.id] = set_condition(@, condition)], target.id)
    ELSE Returned(Append(heap, DecompositionRule(target.name, NoResources, condition)),
                  Len(heap) + 1)

\* register_resources(resources, qfunc) and register_resources(resources)(qfunc)
RegisterResourcesOf(heap, resources, target) ==
    IF target.isrule
    THEN Returned([heap EXCEPT ![target.id] = set_resources(@, resources)], target.id)
    ELSE Returned(Append(heap, DecompositionRule(target.name, resources, "None")),
                  Len(heap) + 1)

\* null_decomp, the rule the module creates when it is imported
null_decomp == DecompositionRule("null_decomp", StaticDict(<<>>), "None")

Registration(fn, arg, target) == [fn |-> fn, arg |-> arg, target |-> target]

Registrations == SumSeq([r \in DOMAIN hist |-> Len(hist[r])])

Targets == {Qfunc(q) : q \in Qfuncs} \cup {RuleRef(r) : r \in DOMAIN rules}

RegistryUntouched == UNCHANGED <<decompositions, lists, log>>

InitRules ==
    /\ TreeIdle
    /\ OneShotIdle
    /\ DecomposeIdle
    /\ rules = <<null_decomp>>
    /\ hist = << <<Registration("register_resources", StaticDict(<<>>),
                                Qfunc("null_decomp"))>> >>
    /\ decompositions = <<>>
    /\ lists = <<>>
    /\ log = <<>>
    /\ call = NoCall

\* the history of a rule gets the call; a new rule starts a new history
Record(out, reg) ==
    IF out.ret \in DOMAIN hist
    THEN [hist EXCEPT ![out.ret] = Append(@, reg)]
    ELSE Append(hist, <<reg>>)

RegisterResources ==
    /\ Registrations <= MaxRegistrations
    /\ \E resources \in ResourceArgs, target \in Targets :
       \E out \in {RegisterResourcesOf(rules, resources, target)} :
          /\ rules' = out.heap
          /\ hist' = Record(out, Registration("register_resources", resources, target))
          /\ call' = [fn |-> "register_resources", args |-> <<resources, target>>,
                      ret |-> <<out.ret>>, err |-> "none"]
    /\ RegistryUntouched
    /\ UNCHANGED nonRegistryVars

RegisterCondition ==
    /\ Registrations <= MaxRegistrations
    /\ \E condition \in Conditions, target \in Targets :
       \E out \in {RegisterConditionOf(rules, condition, target)} :
          /\ rules' = out.heap
          /\ hist' = Record(out, Registration("register_condition", condition, target))
          /\ call' = [fn |-> "register_condition", args |-> <<condition, target>>,
                      ret |-> <<out.ret>>, err |-> "none"]
    /\ RegistryUntouched
    /\ UNCHANGED nonRegistryVars

ComputeResources ==
    /\ \E r \in DOMAIN rules, args \in RuleArgs, assertions \in BOOLEAN :
       \E out \in {ComputeResourcesOf(rules[r], args, assertions)} :
          call' = [fn |-> "compute_resources", args |-> <<r, args, assertions>>,
                   ret |-> <<out.val>>, err |-> out.err]
    /\ RegistryUntouched
    /\ UNCHANGED <<rules, hist, nonRegistryVars>>

IsApplicable ==
    /\ \E r \in DOMAIN rules, args \in RuleArgs :
          call' = [fn |-> "is_applicable", args |-> <<r, args>>,
                   ret |-> <<IsApplicableOf(rules[r], args)>>, err |-> "none"]
    /\ RegistryUntouched
    /\ UNCHANGED <<rules, hist, nonRegistryVars>>

NextRules ==
    \/ RegisterResources
    \/ RegisterCondition
    \/ ComputeResources
    \/ IsApplicable

SpecRules == InitRules /\ [][NextRules]_vars

(***************************************************************************)
(* Quantities the properties of the decomposition rules speak about.       *)
(***************************************************************************)
HasRegistered(r, fn) == \E i \in DOMAIN hist[r] : hist[r][i].fn = fn

\* the argument of the last call of fn that was applied to rule r
LastRegistered(r, fn) ==
    hist[r][CHOOSE i \in DOMAIN hist[r] :
               /\ hist[r][i].fn = fn
               /\ \A j \in DOMAIN hist[r] : hist[r][j].fn = fn => j <= i].arg

\* compute_resources was just called on a rule whose resources are a dictionary
ComputedStatic ==
    /\ call.fn = "compute_resources"
    /\ HasRegistered(call.args[1], "register_resources")
    /\ LastRegistered(call.args[1], "register_resources").kind = "dict"

StaticDictOfCall == LastRegistered(call.args[1], "register_resources").dict

GateCountsOfCall == call.ret[1].gate_counts

\* the compressed representation a valid key stands for
Canonical(k) == CompressedResourceOp(k.name, k.params)

ValidKey(k) ==
    \/ k.kind = "rep"
    \/ k.kind = "type" /\ resource_keys(k.name) = {}

\* the occurrences a dictionary declares for one representation
PositiveTotal(d, rep) ==
    SumSeq([i \in DOMAIN d |->
               IF Canonical(d[i].k) = rep /\ d[i].v > 0 THEN d[i].v ELSE 0])

\* C15 as stated: compute_resources of a rule with a static dictionary returns
\* every entry of the dictionary, under its compressed representation, with
\* its count.
StaticResourcesEntryWise ==
    ComputedStatic =>
        /\ call.err = "none"
        /\ \A i \in DOMAIN StaticDictOfCall :
              /\ HasKey(GateCountsOfCall, Canonical(StaticDictOfCall[i].k))
              /\ Lookup(GateCountsOfCall, Canonical(StaticDictOfCall[i].k))
                    = StaticDictOfCall[i].v

\* C15 amended: compute_resources of a rule with a static dictionary raises
\* TypeError exactly when an entry with a positive count has a key that has no
\* compressed representation; otherwise it returns, whatever the arguments,
\* the representations of the entries with a positive count, each once, with
\* the sum of the counts of the entries that stand for it.
StaticResourcesCanonicalized ==
    ComputedStatic =>
        IF \E i \in DOMAIN StaticDictOfCall :
              StaticDictOfCall[i].v > 0 /\ ~ValidKey(StaticDictOfCall[i].k)
        THEN call.err = "TypeError"
        ELSE /\ call.err = "none"
             /\ \A i \in DOMAIN StaticDictOfCall :
                   StaticDictOfCall[i].v > 0 =>
                      HasKey(GateCountsOfCall, Canonical(StaticDictOfCall[i].k))
             /\ \A i, j \in DOMAIN GateCountsOfCall :
                   GateCountsOfCall[i].k = GateCountsOfCall[j].k => i = j
             /\ \A i \in DOMAIN GateCountsOfCall :
                   /\ GateCountsOfCall[i].v > 0
                   /\ GateCountsOfCall[i].v
                         = PositiveTotal(StaticDictOfCall, GateCountsOfCall[i].k)

StaticResourcesCanonicalizedWitness ==
    /\ ComputedStatic
    /\ call.err = "none"
    /\ Len(StaticDictOfCall) = 2
    /\ Len(GateCountsOfCall) = 1
    /\ GateCountsOfCall[1].v = 2

\* what the resource function registered last on the rule of the call returns
ReturnedByResourceFunction ==
    RawGateCounts(SetResources(LastRegistered(call.args[1], "register_resources")),
                  call.args[2])

\* C16: when the resource function of the rule returns something that is not
\* a mapping, or a mapping with a key that is neither an Operator subclass
\* without resource_keys nor a compressed representation, compute_resources
\* raises TypeError.
ContractViolationRaisesTypeError ==
    (/\ call.fn = "compute_resources"
     /\ HasRegistered(call.args[1], "register_resources")
     /\ \/ ~ReturnedByResourceFunction.isdict
        \/ \E i \in DOMAIN ReturnedByResourceFunction.items :
              ~ValidKey(ReturnedByResourceFunction.items[i].k))
        => call.err = "TypeError"

\* C17: a rule that register_resources and register_condition were both
\* applied to, in either order, is the one rule made of the quantum function,
\* the resources registered last and the condition registered last; a
\* decorator applied to a rule returns that rule, and only the decorators
\* applied to a plain quantum function have created a rule.
RegistrationsCompose ==
    /\ \A r \in DOMAIN rules :
          (HasRegistered(r, "register_resources")
              /\ HasRegistered(r, "register_condition")) =>
             /\ rules[r] = DecompositionRule(hist[r][1].target.name,
                                             LastRegistered(r, "register_resources"),
                                             LastRegistered(r, "register_condition"))
             /\ \A args \in RuleArgs :
                   IsApplicableOf(rules[r], args) = (args.num_wires = 1)
    /\ (call.fn \in {"register_resources", "register_condition"}
           /\ call.args[2].isrule) => call.ret[1] = call.args[2].id
    /\ Len(hist) = Len(rules)
    /\ \A r \in DOMAIN hist : \A i \in DOMAIN hist[r] :
          hist[r][i].target.isrule <=> i > 1

RegistrationsComposeWitness ==
    /\ Len(rules) = 2
    /\ Len(hist[2]) = 2
    /\ hist[2][1].fn = "register_condition"
    /\ hist[2][2].fn = "register_resources"
    /\ hist[2][2].arg.kind = "dict"
    /\ call.fn = "compute_resources"
    /\ call.args[1] = 2
    /\ call.err = "none"
    /\ Len(call.ret[1].gate_counts) = 2

(***************************************************************************)
(* The registry of decomposition rules: _decompositions, add_decomps,      *)
(* list_decomps and has_decomp.                                            *)
(*                                                                         *)
(*   decompositions  the defaultdict: items (operator name, list object)   *)
(*   lists           the list objects the mapping holds, by identity       *)
(*   log             the calls of add_decomps that returned                *)
(*   call            the last call, its arguments and what it returned     *)
(* A list reference is the identity of a list of the mapping (alias > 0)   *)
(* or a list of the caller's own, given by its content.                    *)
(***************************************************************************)
MaxAdds == 2

OpType(name) == [istype |-> TRUE, name |-> name]

OpName(name) == [istype |-> FALSE, name |-> name]

OpTypeArgs == {OpType("PauliX"), OpName("X"), OpName("CNOT")}

\* translate_op_alias: the name an alias stands for
translate_op_alias(op_alias) ==
    IF op_alias = "X" THEN "PauliX"
    ELSE IF op_alias = "H" THEN "Hadamard"
    ELSE op_alias

\* "if isinstance(op_type, type): op_type = op_type.__name__", then the alias
RegistryKey(op_type) == translate_op_alias(op_type.name)

\* _decompositions[key]: a missing key gets a new empty list
GetItem(mapping, heap, key) ==
    IF HasKey(mapping, key)
    THEN [decompositions |-> mapping, lists |-> heap, id |-> Lookup(mapping, key)]
    ELSE [decompositions |-> Put(mapping, key, Len(heap) + 1),
          lists |-> Append(heap, <<>>), id |-> Len(heap) + 1]

\* the objects add_decomps can be given as rules
DecompArgs ==
    {<<>>,
     <<RuleRef(2)>>,
     <<RuleRef(3)>>,
     <<RuleRef(2), RuleRef(3)>>,
     <<RuleRef(3), RuleRef(2)>>,
     <<Qfunc("my_cnot")>>,
     <<RuleRef(2), Qfunc("my_cnot")>>}

Ids(decomps) == [i \in DOMAIN decomps |-> decomps[i].id]

Outcome(mapping, heap, ret, e) ==
    [decompositions |-> mapping, lists |-> heap, ret |-> ret, err |-> e]

\* variant: the rules of the call replace the rules of the operator
AddDecompsReplacing(mapping, heap, op_type, decomps) ==
    IF \E i \in DOMAIN decomps : ~decomps[i].isrule
    THEN Outcome(mapping, heap, <<>>, "TypeError")
    ELSE LET Assign(got) ==
                 Outcome(got.decompositions,
                         [got.lists EXCEPT ![got.id] = Ids(decomps)], <<>>, "none")
         IN  Assign(GetItem(mapping, heap, RegistryKey(op_type)))

\* add_decomps(op_type, *decomps)
AddDecompsOf(mapping, heap, op_type, decomps) ==
    IF \E i \in DOMAIN decomps : ~decomps[i].isrule
    THEN Outcome(mapping, heap, <<>>, "TypeError")
    ELSE LET Extend(got) ==
                 Outcome(got.decompositions,
                         [got.lists EXCEPT ![got.id] = @ \o Ids(decomps)], <<>>, "none")
         IN  Extend(GetItem(mapping, heap, RegistryKey(op_type)))

ListRef(alias, val) == [alias |-> alias, val |-> val]

\* list_decomps(op_type): a copy of _decompositions[key]
ListDecompsOf(mapping, heap, op_type) ==
    LET Copy(got) ==
            Outcome(got.decompositions, got.lists,
                    <<ListRef(0, got.lists[got.id])>>, "none")
    IN  Copy(GetItem(mapping, heap, RegistryKey(op_type)))

\* has_decomp(op_type)
HasDecompOf(mapping, heap, op_type) ==
    /\ HasKey(mapping, RegistryKey(op_type))
    /\ Len(heap[Lookup(mapping, RegistryKey(op_type))]) > 0

\* the rules a program has made before it uses the registry: null_decomp,
\* a rule with resources and a rule with a condition and no resources
RulesMade ==
    <<null_decomp,
      DecompositionRule("my_cnot",
                        StaticDict(<<Item(Operator("Hadamard"), 2),
                                     Item(Operator("CZ"), 1)>>), "None"),
      DecompositionRule("my_cnot", NoResources, "single_wire")>>

InitRegistry ==
    /\ TreeIdle
    /\ OneShotIdle
    /\ DecomposeIdle
    /\ rules = RulesMade
    /\ hist = << <<Registration("register_resources", StaticDict(<<>>),
                                Qfunc("null_decomp"))>>,
                 <<Registration("register_resources",
                                StaticDict(<<Item(Operator("Hadamard"), 2),
                                             Item(Operator("CZ"), 1)>>),
                                Qfunc("my_cnot"))>>,
                 <<Registration("register_condition", "single_wire",
                                Qfunc("my_cnot"))>> >>
    /\ decompositions = <<>>
    /\ lists = <<>>
    /\ log = <<>>
    /\ call = NoCall

AddDecomps ==
    /\ Len(log) < MaxAdds
    /\ \E op_type \in OpTypeArgs, decomps \in DecompArgs :
       \E out \in {AddDecompsOf(decompositions, lists, op_type, decomps)} :
          /\ decompositions' = out.decompositions
          /\ lists' = out.lists
          /\ log' = IF out.err = "none"
                    THEN Append(log, [op_type |-> op_type, decomps |-> decomps])
                    ELSE log
          /\ call' = [fn |-> "add_decomps", args |-> <<op_type, decomps>>,
                      ret |-> out.ret, err |-> out.err]
    /\ UNCHANGED <<rules, hist, nonRegistryVars>>

ListDecomps ==
    /\ \E op_type \in OpTypeArgs :
       \E out \in {ListDecompsOf(decompositions, lists, op_type)} :
          /\ decompositions' = out.decompositions
          /\ lists' = out.lists
          /\ call' = [fn |-> "list_decomps", args |-> <<op_type>>,
                      ret |-> out.ret, err |-> "none"]
    /\ UNCHANGED <<log, rules, hist, nonRegistryVars>>

HasDecomp ==
    /\ \E op_type \in OpTypeArgs :
          call' = [fn |-> "has_decomp", args |-> <<op_type>>,
                   ret |-> <<HasDecompOf(decompositions, lists, op_type)>>,
                   err |-> "none"]
    /\ UNCHANGED <<decompositions, lists, log, rules, hist, nonRegistryVars>>

\* the caller changes the list that list_decomps returned: it appends a rule
\* to it or empties it
ModifyReturnedList ==
    /\ call.fn = "list_decomps"
    /\ \E val \in {Append(call.ret[1].val, 1), <<>>} :
          /\ lists' = IF call.ret[1].alias > 0
                      THEN [lists EXCEPT ![call.ret[1].alias] = val]
                      ELSE lists
          /\ call' = [fn |-> "modify", args |-> call.args,
                      ret |-> <<ListRef(call.ret[1].alias, val)>>, err |-> "none"]
    /\ UNCHANGED <<decompositions, log, rules, hist, nonRegistryVars>>

NextRegistry ==
    \/ AddDecomps
    \/ ListDecomps
    \/ HasDecomp
    \/ ModifyReturnedList

SpecRegistry == InitRegistry /\ [][NextRegistry]_vars

(***************************************************************************)
(* Quantities the properties of the registry speak about.                  *)
(***************************************************************************)
\* the rules the calls of a log added for one operator name, in call order
\* and, within a call, in argument order
RECURSIVE RulesAddedFor(_, _)
RulesAddedFor(key, calls) ==
    IF calls = <<>> THEN <<>>
    ELSE (IF RegistryKey(Head(calls).op_type) = key
          THEN Ids(Head(calls).decomps) ELSE <<>>)
            \o RulesAddedFor(key, Tail(calls))

\* what list_decomps(op_type) returns in a state of the registry
Listed(mapping, heap, op_type) == ListDecompsOf(mapping, heap, op_type).ret[1].val

\* C12: in every state list_decomps returns, for an operator given by type,
\* by name or by alias, exactly the rules the add_decomps calls so far added
\* for that operator, in call order and within a call in argument order.
RegistryIsAppendOnly ==
    /\ \A op_type \in OpTypeArgs :
          Listed(decompositions, lists, op_type)
             = RulesAddedFor(RegistryKey(op_type), log)
    /\ call.fn = "list_decomps" =>
          call.ret[1].val = RulesAddedFor(RegistryKey(call.args[1]), log)

RegistryIsAppendOnlyWitness ==
    /\ Len(log) = 2
    /\ log[1].op_type = OpType("PauliX")
    /\ log[2].op_type = OpName("X")
    /\ call.fn = "list_decomps"
    /\ call.args[1] = OpName("X")
    /\ call.ret[1].val = <<3, 2, 2>>

\* a rule with a resource estimate registered through register_resources
ResourceAnnotated(d) == d.isrule /\ HasRegistered(d.id, "register_resources")

\* C13: add_decomps called with an argument that is not a resource-annotated
\* rule has raised TypeError and added none of the rules of the call.
UnannotatedRuleRejected ==
    (/\ call.fn = "add_decomps"
     /\ \E i \in DOMAIN call.args[2] : ~ResourceAnnotated(call.args[2][i]))
        => /\ call.err = "TypeError"
           /\ \A k \in DOMAIN log : log[k].decomps # call.args[2]

\* C14: list_decomps and has_decomp leave the mapping and its lists as they
\* are; changing the list that list_decomps returned changes nothing that
\* list_decomps and has_decomp return; has_decomp is true exactly when
\* list_decomps is not empty.
QueriesAreReadOnly ==
    [][/\ call'.fn \in {"list_decomps", "has_decomp"} =>
             /\ decompositions' = decompositions
             /\ lists' = lists
       /\ call'.fn = "modify" =>
             \A op_type \in OpTypeArgs :
                Listed(decompositions', lists', op_type)
                   = Listed(decompositions, lists, op_type)
       /\ \A op_type \in OpTypeArgs :
             HasDecompOf(decompositions', lists', op_type)
                <=> Listed(decompositions', lists', op_type) # <<>>]_vars

(***************************************************************************)
(* decompose (transforms/decompose.py).                                    *)
(*                                                                         *)
(* An operator is its name and its wires.  The operator classes are not    *)
(* part of the module: which operators define a decomposition, and what it *)
(* is, are given by a table, with two user-defined operators A and B whose *)
(* decompositions refer to each other.                                     *)
(***************************************************************************)
MaxExpansion == 2

\* the depth of nested generators the interpreter allows
RecursionLimit == MaxExpansion + 2

Op(name, wires) == [name |-> name, wires |-> wires]

Names == {"CNOT", "Hadamard", "CZ", "RZ", "RX", "A", "B"}

\* Operator.decomposition()
Decomposition(op) ==
    IF op.name = "CZ"
    THEN <<Op("Hadamard", <<op.wires[2]>>), Op("CNOT", op.wires),
           Op("Hadamard", <<op.wires[2]>>)>>
    ELSE IF op.name = "Hadamard"
    THEN <<Op("RZ", op.wires), Op("RX", op.wires), Op("RZ", op.wires)>>
    ELSE IF op.name = "A" THEN <<Op("B", op.wires)>>
    ELSE IF op.name = "B" THEN <<Op("A", op.wires), Op("RZ", op.wires)>>
    ELSE <<>>

\* Operator.has_decomposition
has_decomposition(op) == op.name \in {"CZ", "Hadamard", "A", "B"}

\* variant: the rule for CNOT queues its operators in another order
QueueSwapped(rule, op) ==
    IF rule = "my_cnot"
    THEN <<Op("CZ", op.wires), Op("Hadamard", <<op.wires[2]>>),
           Op("Hadamard", <<op.wires[2]>>)>>
    ELSE <<Op("RZ", op.wires), Op("RX", op.wires), Op("RZ", op.wires)>>

\* the quantum functions used as decomposition rules, by what they queue
Queue(rule, op) ==
    IF rule = "my_cnot"
    THEN <<Op("Hadamard", <<op.wires[2]>>), Op("CZ", op.wires),
           Op("Hadamard", <<op.wires[2]>>)>>
    ELSE IF rule = "cnot_padded"
    THEN <<Op("Hadamard", <<op.wires[1]>>), Op("Hadamard", <<op.wires[1]>>),
           Op("Hadamard", <<op.wires[2]>>), Op("CZ", op.wires),
           Op("Hadamard", <<op.wires[2]>>)>>
    ELSE IF rule = "cz_to_cnot"
    THEN <<Op("Hadamard", <<op.wires[2]>>), Op("CNOT", op.wires),
           Op("Hadamard", <<op.wires[2]>>)>>
    ELSE <<Op("RZ", op.wires), Op("RX", op.wires), Op("RZ", op.wires)>>

\* the resources the rules were registered with
RuleResources(rule) ==
    IF rule = "my_cnot" THEN <<Item("Hadamard", 2), Item("CZ", 1)>>
    ELSE IF rule = "cnot_padded" THEN <<Item("Hadamard", 4), Item("CZ", 1)>>
    ELSE IF rule = "cz_to_cnot" THEN <<Item("Hadamard", 2), Item("CNOT", 1)>>
    ELSE <<Item("RZ", 2), Item("RX", 1)>>

\* the rules of the registry when decompose is called
RegisteredRules(name) ==
    IF name = "CNOT" THEN <<"cnot_padded">>
    ELSE IF name = "CZ" THEN <<"cz_to_cnot">>
    ELSE IF name = "Hadamard" THEN <<"h_to_rz_rx">>
    ELSE <<>>

(***************************************************************************)
(* The arguments of decompose.  A gate set is None, a set or a dictionary  *)
(* of operator types and names (a set has weight 1 everywhere), a          *)
(* function, or an object of another type.                                 *)
(***************************************************************************)
GateSet(kind, items) == [kind |-> kind, items |-> items]

GateSets ==
    {GateSet("None", <<>>),
     GateSet("set", <<>>),
     GateSet("set", <<Item(OpType("Hadamard"), 1), Item(OpType("CZ"), 1)>>),
     GateSet("set", <<Item(OpName("H"), 1), Item(OpName("CZ"), 1)>>),
     GateSet("set", <<Item(OpName("RZ"), 1), Item(OpName("RX"), 1),
                      Item(OpType("CNOT"), 1)>>),
     GateSet("dict", <<>>),
     GateSet("dict", <<Item(OpType("Hadamard"), 1), Item(OpType("CZ"), 2)>>),
     GateSet("dict", <<Item(OpType("Hadamard"), 1), Item(OpType("CZ"), -1)>>),
     GateSet("function", <<>>),
     GateSet("other", <<>>)}

StoppingConditions == {"None", "stops_at_cz"}

NoMaxExpansion == [given |-> FALSE, k |-> 0]

MaxExpansions == {NoMaxExpansion} \cup {[given |-> TRUE, k |-> k] : k \in 0..MaxExpansion}

NotGiven == [given |-> FALSE, items |-> <<>>]

Given(items) == [given |-> TRUE, items |-> items]

FixedDecomps == {NotGiven, Given(<<>>), Given(<<Item(OpType("CNOT"), "my_cnot")>>)}

AltDecomps == {NotGiven, Given(<<Item(OpType("CNOT"), <<"my_cnot">>)>>)}

Tapes ==
    {<<Op("CNOT", <<0, 1>>)>>,
     <<Op("Hadamard", <<0>>), Op("CNOT", <<0, 1>>), Op("CZ", <<1, 0>>)>>,
     <<Op("CZ", <<0, 1>>), Op("Hadamard", <<0>>)>>,
     <<Op("A", <<0>>)>>,
     <<Op("RZ", <<0>>), Op("RX", <<1>>)>>}

\* the truth value of an argument: None and empty containers are false
Truthy(arg) ==
    IF arg.kind = "None" THEN FALSE
    ELSE IF arg.kind \in {"set", "dict"} THEN arg.items # <<>>
    ELSE TRUE

\* the function given as gate_set and the function given as stopping_condition
FunctionAccepts(op) == op.name \in {"RZ", "RX", "CNOT"}

StopsAtCZ(op) == op.name = "CZ"

\* set(qml.ops.__all__)
OpsAll ==
    GateSet("set", <<Item(OpName("CNOT"), 1), Item(OpName("Hadamard"), 1),
                     Item(OpName("CZ"), 1), Item(OpName("RZ"), 1),
                     Item(OpName("RX"), 1)>>)

Resolved(e, gate_set, stopping_condition) ==
    [err |-> e, gate_set |-> gate_set, stopping_condition |-> stopping_condition,
     gate_types |-> {gate_set.items[i].k.name : i \in
                        {j \in DOMAIN gate_set.items : gate_set.items[j].k.istype}},
     gate_names |-> {translate_op_alias(gate_set.items[i].k.name) : i \in
                        {j \in DOMAIN gate_set.items : ~gate_set.items[j].k.istype}}]

\* variant: the weights are tested after the type of the gate set
ResolveGateSetWeightsLast(gate_set, stopping_condition, enabled) ==
    IF ~enabled /\ Truthy(gate_set) /\ stopping_condition # "None"
    THEN Resolved("TypeError", gate_set, stopping_condition)
    ELSE IF gate_set.kind = "None"
    THEN Resolved("none", OpsAll, stopping_condition)
    ELSE IF gate_set.kind = "dict" /\ ~enabled
    THEN Resolved("TypeError", gate_set, stopping_condition)
    ELSE IF gate_set.kind = "dict"
            /\ \E i \in DOMAIN gate_set.items : gate_set.items[i].v < 0
    THEN Resolved("ValueError", gate_set, stopping_condition)
    ELSE IF gate_set.kind \in {"set", "dict"}
    THEN Resolved("none", gate_set, stopping_condition)
    ELSE IF gate_set.kind = "function" /\ ~enabled
    THEN Resolved("none", gate_set, stopping_condition)
    ELSE Resolved("TypeError", gate_set, stopping_condition)

\* _resolve_gate_set
ResolveGateSet(gate_set, stopping_condition, enabled) ==
    IF ~enabled /\ Truthy(gate_set) /\ stopping_condition # "None"
    THEN Resolved("TypeError", gate_set, stopping_condition)
    ELSE IF gate_set.kind = "None"
    THEN Resolved("none", OpsAll, stopping_condition)
    ELSE IF gate_set.kind = "dict"
            /\ \E i \in DOMAIN gate_set.items : gate_set.items[i].v < 0
    THEN Resolved("ValueError", gate_set, stopping_condition)
    ELSE IF gate_set.kind = "dict" /\ ~enabled
    THEN Resolved("TypeError", gate_set, stopping_condition)
    ELSE IF gate_set.kind \in {"set", "dict"}
    THEN Resolved("none", gate_set, stopping_condition)
    ELSE IF gate_set.kind = "function" /\ ~enabled
    THEN Resolved("none", gate_set, stopping_condition)
    ELSE Resolved("TypeError", gate_set, stopping_condition)

\* gate_set_contains of _resolve_gate_set
GateSetContains(resolved, op) ==
    IF resolved.gate_set.kind = "function" THEN FunctionAccepts(op)
    ELSE op.name \in resolved.gate_names \/ op.name \in resolved.gate_types

\* variant: a stopping condition that is given replaces the gate set
ResolvedStoppingConditionAlone(resolved, op) ==
    IF resolved.stopping_condition # "None" THEN StopsAtCZ(op)
    ELSE GateSetContains(resolved, op)

\* the stopping condition _resolve_gate_set returns
ResolvedStoppingCondition(resolved, op) ==
    IF resolved.stopping_condition # "None"
    THEN GateSetContains(resolved, op) \/ StopsAtCZ(op)
    ELSE GateSetContains(resolved, op)

Stops(stop, warned) == [stop |-> stop, warned |-> warned]

\* variant: an operator without decomposition is not accepted for that reason
StoppingConditionStrict(resolved, enabled, op) ==
    Stops(ResolvedStoppingCondition(resolved, op), FALSE)

\* _stopping_condition of decompose: whether op is accepted and whether the
\* warning was given
StoppingCondition(resolved, enabled, op) ==
    IF enabled THEN Stops(ResolvedStoppingCondition(resolved, op), FALSE)
    ELSE IF ~has_decomposition(op)
    THEN Stops(TRUE, ~ResolvedStoppingCondition(resolved, op))
    ELSE Stops(ResolvedStoppingCondition(resolved, op), FALSE)

\* "all(_stopping_condition(op) for op in tape.operations)": the operators
\* are tested in order up to the first that is not accepted
RECURSIVE AllStop(_, _, _, _)
AllStop(resolved, enabled, ops, warned) ==
    IF ops = <<>> THEN [all |-> TRUE, warnings |-> warned]
    ELSE LET Test(st) ==
                 IF st.stop
                 THEN AllStop(resolved, enabled, Tail(ops),
                              IF st.warned THEN Append(warned, Head(ops).name)
                              ELSE warned)
                 ELSE [all |-> FALSE, warnings |-> warned]
         IN  Test(StoppingCondition(resolved, enabled, Head(ops)))

(***************************************************************************)
(* DecompositionGraph is not part of the module; it is modelled from its   *)
(* description: every operator gets the candidate rule of least weighted   *)
(* gate count down to the target gates, a fixed decomposition replaces the *)
(* candidates of its operator, alternative decompositions are added to the *)
(* registered ones, and solve fails when an operator of the circuit cannot *)
(* reach the target gates.                                                 *)
(***************************************************************************)
\* the name an entry of a gate set or of a dictionary of rules stands for
KeyName(key) == IF key.istype THEN key.name ELSE translate_op_alias(key.name)

TargetGates(gate_set) == {KeyName(gate_set.items[i].k) : i \in DOMAIN gate_set.items}

TargetWeight(gate_set, name) ==
    gate_set.items[CHOOSE i \in DOMAIN gate_set.items :
                       KeyName(gate_set.items[i].k) = name].v

Entries(decomps, name) ==
    {i \in DOMAIN decomps.items : KeyName(decomps.items[i].k) = name}

Candidates(name, fixed_decomps, alt_decomps) ==
    IF Entries(fixed_decomps, name) # {}
    THEN <<fixed_decomps.items[CHOOSE i \in Entries(fixed_decomps, name) : TRUE].v>>
    ELSE IF Entries(alt_decomps, name) # {}
    THEN RegisteredRules(name)
         \o alt_decomps.items[CHOOSE i \in Entries(alt_decomps, name) : TRUE].v
    ELSE RegisteredRules(name)

Unsolved == [ok |-> FALSE, c |-> 0, rule |-> "none"]

Solved(c, rule) == [ok |-> TRUE, c |-> c, rule |-> rule]

RECURSIVE RuleCost(_, _, _)
RuleCost(rule, items, cost) ==
    IF items = <<>> THEN Solved(0, rule)
    ELSE IF ~cost[Head(items).k].ok THEN Unsolved
    ELSE LET Add(rest) ==
                 IF rest.ok
                 THEN Solved(rest.c + Head(items).v * cost[Head(items).k].c, rule)
                 ELSE Unsolved
         IN  Add(RuleCost(rule, Tail(items), cost))

\* the cheaper of two solutions, the earlier one on a tie
Cheaper(a, b) == IF b.ok /\ (~a.ok \/ b.c < a.c) THEN b ELSE a

RECURSIVE Best(_, _)
Best(candidates, cost) ==
    IF candidates = <<>> THEN Unsolved
    ELSE Cheaper(RuleCost(Head(candidates), RuleResources(Head(candidates)), cost),
                 Best(Tail(candidates), cost))

RECURSIVE SolveRounds(_, _, _, _)
SolveRounds(n, gate_set, fixed_decomps, alt_decomps) ==
    IF n = 0
    THEN [name \in Names |->
             IF name \in TargetGates(gate_set)
             THEN Solved(TargetWeight(gate_set, name), "none")
             ELSE Unsolved]
    ELSE LET Relax(cost) ==
                 [name \in Names |->
                     IF name \in TargetGates(gate_set) THEN cost[name]
                     ELSE Best(Candidates(name, fixed_decomps, alt_decomps), cost)]
         IN  Relax(SolveRounds(n - 1, gate_set, fixed_decomps, alt_decomps))

NoGraph == [given |-> FALSE, err |-> "none", solution |-> [name \in Names |-> Unsolved]]

\* _construct_and_solve_decomp_graph
ConstructAndSolve(operations, gate_set, fixed_decomps, alt_decomps) ==
    LET Graph(solution) ==
            [given |-> TRUE,
             err |-> IF \E i \in DOMAIN operations : ~solution[operations[i].name].ok
                     THEN "DecompositionError" ELSE "none",
             solution |-> solution]
    IN  Graph(SolveRounds(Cardinality({name \in Names : RegisteredRules(name) # <<>>}),
                          gate_set, fixed_decomps, alt_decomps))

\* DecompositionGraph.is_solved_for
is_solved_for(graph, op) ==
    graph.solution[op.name].ok /\ graph.solution[op.name].rule # "none"

(***************************************************************************)
(* The call of decompose.  The nested generators of                        *)
(* _operator_decomposition_gen are a list of the operators still to be     *)
(* visited, each with its depth, in the order the generators visit them.   *)
(***************************************************************************)
Kwargs ==
    [gate_set : GateSets, stopping_condition : StoppingConditions,
     max_expansion : MaxExpansions, fixed_decomps : FixedDecomps,
     alt_decomps : AltDecomps]

Visit(op, current_depth) == [op |-> op, current_depth |-> current_depth]

Visits(ops, current_depth) == [i \in DOMAIN ops |-> Visit(ops[i], current_depth)]

Started(at, e, graph, frames, ops, warned) ==
    [dpc |-> at, derr |-> e, decomp_graph |-> graph, pending |-> frames,
     new_ops |-> ops, warnings |-> warned]

Raised(e) == Started("raised", e, NoGraph, <<>>, <<>>, <<>>)

\* decompose from the construction of the graph to the first generator
StartSolved(ops, warned, graph) ==
    IF graph.err # "none" THEN Raised(graph.err)
    ELSE Started("generating", "none", graph, Visits(ops, 0), <<>>, warned)

\* decompose from the test of the whole tape
StartTested(ops, kw, enabled, resolved, all) ==
    IF all.all
    THEN Started("returned", "none", NoGraph, <<>>, ops, all.warnings)
    ELSE StartSolved(ops, all.warnings,
                     IF enabled
                     THEN ConstructAndSolve(ops, resolved.gate_set,
                                            kw.fixed_decomps, kw.alt_decomps)
                     ELSE NoGraph)

StartResolved(ops, kw, enabled, resolved) ==
    IF resolved.err # "none" THEN Raised(resolved.err)
    ELSE StartTested(ops, kw, enabled, resolved, AllStop(resolved, enabled, ops, <<>>))

\* decompose up to the first generator
DecomposeStart(ops, kw, enabled) ==
    IF ~enabled /\ (kw.fixed_decomps.items # <<>> \/ kw.alt_decomps.items # <<>>)
    THEN Raised("TypeError")
    ELSE StartResolved(ops, kw, enabled,
                       ResolveGateSet(kw.gate_set, kw.stopping_condition, enabled))

\* variant: the depth is not tested
MaxDepthNeverReached(max_expansion, current_depth) == FALSE

\* max_depth_reached of _operator_decomposition_gen
max_depth_reached(max_expansion, current_depth) ==
    max_expansion.given /\ max_expansion.k <= current_depth

\* acceptance_function(op) for the operator at the head of the list
Acceptance ==
    StoppingCondition(ResolveGateSet(kwargs.gate_set, kwargs.stopping_condition,
                                     enabled_graph),
                      enabled_graph, Head(pending).op)

Step(kind, frame) == [kind |-> kind, op |-> frame.op, current_depth |-> frame.current_depth]

NoStep == [kind |-> "none", op |-> Op("none", <<>>), current_depth |-> 0]

InitDecompose ==
    /\ TreeIdle
    /\ OneShotIdle
    /\ RegistryIdle
    /\ DecomposeIdle

DecomposeCall ==
    /\ dpc = "idle"
    /\ \E ops \in Tapes, kw \in Kwargs, enabled \in BOOLEAN :
          /\ script' = ops
          /\ kwargs' = kw
          /\ enabled_graph' = enabled
          /\ \E r \in {DecomposeStart(ops, kw, enabled)} :
                /\ dpc' = r.dpc
                /\ derr' = r.derr
                /\ decomp_graph' = r.decomp_graph
                /\ pending' = r.pending
                /\ new_ops' = r.new_ops
                /\ warnings' = r.warnings
    /\ gen_step' = NoStep
    /\ UNCHANGED <<treeVars, oneShotVars, registryVars>>

Generating ==
    /\ dpc = "generating"
    /\ pending # <<>>
    /\ Head(pending).current_depth < RecursionLimit

\* the generator yields the operator
GenYield ==
    /\ Generating
    /\ \E st \in {Acceptance} :
          /\ st.stop \/ max_depth_reached(kwargs.max_expansion, Head(pending).current_depth)
          /\ warnings' = IF st.warned THEN Append(warnings, Head(pending).op.name)
                         ELSE warnings
    /\ new_ops' = Append(new_ops, Head(pending).op)
    /\ pending' = Tail(pending)
    /\ gen_step' = Step("yield", Head(pending))
    /\ UNCHANGED <<script, kwargs, enabled_graph, decomp_graph, dpc, derr>>
    /\ UNCHANGED <<treeVars, oneShotVars, registryVars>>

\* the generator calls the rule of the graph and visits what it queued
GenGraphRule ==
    /\ Generating
    /\ \E st \in {Acceptance} :
          /\ ~(st.stop \/ max_depth_reached(kwargs.max_expansion,
                                            Head(pending).current_depth))
          /\ warnings' = IF st.warned THEN Append(warnings, Head(pending).op.name)
                         ELSE warnings
    /\ decomp_graph.given
    /\ is_solved_for(decomp_graph, Head(pending).op)
    /\ pending' = Visits(Queue(decomp_graph.solution[Head(pending).op.name].rule,
                               Head(pending).op),
                         Head(pending).current_depth + 1) \o Tail(pending)
    /\ gen_step' = Step("rule", Head(pending))
    /\ UNCHANGED <<script, kwargs, enabled_graph, decomp_graph, new_ops, dpc, derr>>
    /\ UNCHANGED <<treeVars, oneShotVars, registryVars>>

\* the generator visits op.decomposition()
GenDecomposition ==
    /\ Generating
    /\ \E st \in {Acceptance} :
          /\ ~(st.stop \/ max_depth_reached(kwargs.max_expansion,
                                            Head(pending).current_depth))
          /\ warnings' = IF st.warned THEN Append(warnings, Head(pending).op.name)
                         ELSE warnings
    /\ ~(decomp_graph.given /\ is_solved_for(decomp_graph, Head(pending).op))
    /\ IF has_decomposition(Head(pending).op)
       THEN /\ pending' = Visits(Decomposition(Head(pending).op),
                                 Head(pending).current_depth + 1) \o Tail(pending)
            /\ UNCHANGED <<new_ops, dpc, derr>>
       ELSE /\ pending' = <<>>
            /\ new_ops' = <<>>
            /\ dpc' = "raised"
            /\ derr' = "DecompositionUndefinedError"
    /\ gen_step' = Step("decomposition", Head(pending))
    /\ UNCHANGED <<script, kwargs, enabled_graph, decomp_graph>>
    /\ UNCHANGED <<treeVars, oneShotVars, registryVars>>

\* the nesting of the generators exceeds the recursion limit
GenRecursionError ==
    /\ dpc = "generating"
    /\ pending # <<>>
    /\ Head(pending).current_depth >= RecursionLimit
    /\ pending' = <<>>
    /\ new_ops' = <<>>
    /\ dpc' = "raised"
    /\ derr' = "RecursionError"
    /\ gen_step' = Step("recursion", Head(pending))
    /\ UNCHANGED <<script, kwargs, enabled_graph, decomp_graph, warnings>>
    /\ UNCHANGED <<treeVars, oneShotVars, registryVars>>

\* tape.copy(operations=new_ops)
DecomposeReturn ==
    /\ dpc = "generating"
    /\ pending = <<>>
    /\ dpc' = "returned"
    /\ gen_step' = NoStep
    /\ UNCHANGED <<script, kwargs, enabled_graph, decomp_graph, pending, new_ops,
                   warnings, derr>>
    /\ UNCHANGED <<treeVars, oneShotVars, registryVars>>

NextDecompose ==
    \/ DecomposeCall
    \/ GenYield
    \/ GenGraphRule
    \/ GenDecomposition
    \/ GenRecursionError
    \/ DecomposeReturn

SpecDecompose == InitDecompose /\ [][NextDecompose]_vars

SpecDecomposeFair == SpecDecompose /\ WF_vars(NextDecompose)

(***************************************************************************)
(* Claims on decompose.                                                    *)
(***************************************************************************)
Called == dpc # "idle"

DecompsGiven == kwargs.fixed_decomps.items # <<>> \/ kwargs.alt_decomps.items # <<>>

BothGiven == Truthy(kwargs.gate_set) /\ kwargs.stopping_condition # "None"

NegativeWeight ==
    /\ kwargs.gate_set.kind = "dict"
    /\ \E i \in DOMAIN kwargs.gate_set.items : kwargs.gate_set.items[i].v < 0

\* the call raised e, no operator was visited and there is no tape
RaisedAtOnce(e) ==
    /\ dpc = "raised"
    /\ derr = e
    /\ gen_step = NoStep
    /\ new_ops = <<>>
    /\ ~decomp_graph.given

\* C18, as stated: each of the listed configurations raises the error named
\* for it: TypeError for fixed_decomps or alt_decomps while the graph system
\* is disabled, for gate_set with stopping_condition while it is disabled,
\* for a dictionary while it is disabled, for a function while it is enabled
\* and for an unsupported type; ValueError for a negative weight.
ConfigurationErrorsByClause ==
    Called =>
        /\ (\/ ~enabled_graph /\ DecompsGiven
            \/ ~enabled_graph /\ BothGiven
            \/ ~enabled_graph /\ kwargs.gate_set.kind = "dict"
            \/ enabled_graph /\ kwargs.gate_set.kind = "function"
            \/ kwargs.gate_set.kind = "other") => RaisedAtOnce("TypeError")
        /\ NegativeWeight => RaisedAtOnce("ValueError")

\* the error of the first test that fails, in the order of the tests
ExpectedConfigurationError ==
    IF ~enabled_graph /\ DecompsGiven THEN "TypeError"
    ELSE IF ~enabled_graph /\ BothGiven THEN "TypeError"
    ELSE IF NegativeWeight THEN "ValueError"
    ELSE IF ~enabled_graph /\ kwargs.gate_set.kind = "dict" THEN "TypeError"
    ELSE IF enabled_graph /\ kwargs.gate_set.kind = "function" THEN "TypeError"
    ELSE IF kwargs.gate_set.kind = "other" THEN "TypeError"
    ELSE "none"

\* C18, amended: the listed configurations are tested in a fixed order
\* (non-empty fixed_decomps or alt_decomps while disabled, non-empty gate_set
\* with stopping_condition while disabled, negative weight, dictionary while
\* disabled, function while enabled, unsupported type) and the call raises
\* the error of the first test that fails, before any operator is visited
\* and without a tape; a call that fails none of them raises neither
\* TypeError nor ValueError.
ConfigurationErrorsInOrder ==
    Called =>
        IF ExpectedConfigurationError # "none"
        THEN RaisedAtOnce(ExpectedConfigurationError)
        ELSE derr \notin {"TypeError", "ValueError"}

\* a dictionary with a negative weight while the graph system is disabled
ConfigurationErrorsInOrderWitness ==
    /\ Called
    /\ ~enabled_graph
    /\ NegativeWeight
    /\ ~DecompsGiven
    /\ ~BothGiven
    /\ RaisedAtOnce("ValueError")

Bounded == Called /\ kwargs.max_expansion.given

\* the operator last visited is accepted by the stopping condition
LastAccepted ==
    ResolvedStoppingCondition(
        ResolveGateSet(kwargs.gate_set, kwargs.stopping_condition, enabled_graph),
        gen_step.op)

DepthBounded ==
    Bounded =>
        /\ derr # "RecursionError"
        /\ \A i \in DOMAIN pending :
              pending[i].current_depth <= kwargs.max_expansion.k
        /\ gen_step.kind \in {"rule", "decomposition"} =>
              gen_step.current_depth < kwargs.max_expansion.k
        /\ (dpc = "returned" /\ kwargs.max_expansion.k = 0) => new_ops = script

\* C19: with max_expansion = k no operator is visited at a depth beyond k,
\* an operator visited at depth k is yielded and not decomposed, the
\* recursion limit is not reached and the generators, once started, come to
\* an end with decompose returning, also when the decompositions are
\* cyclic; with k = 0 the operators returned are those of the input.
BoundedExpansion ==
    /\ []DepthBounded
    /\ (Bounded /\ dpc = "generating") ~> (dpc = "returned")

\* an operator of the cyclic decompositions, outside the gate set, is
\* yielded at depth k
BoundedExpansionWitness ==
    /\ Bounded
    /\ script = <<Op("A", <<0>>)>>
    /\ kwargs.max_expansion.k = MaxExpansion
    /\ gen_step.kind = "yield"
    /\ gen_step.current_depth = kwargs.max_expansion.k
    /\ gen_step.op.name \in {"A", "B"}
    /\ ~LastAccepted

\* the sequences of a sequence, one after the other
RECURSIVE Chain(_)
Chain(seqs) == IF seqs = <<>> THEN <<>> ELSE Head(seqs) \o Chain(Tail(seqs))

\* what takes the place of op visited at current_depth: op itself when it is
\* accepted or the depth is reached, else what takes the place of the
\* operators queued by its rule, one after the other
RECURSIVE Rewritten(_, _)
Rewritten(op, current_depth) ==
    IF \/ ResolvedStoppingCondition(
              ResolveGateSet(kwargs.gate_set, kwargs.stopping_condition, enabled_graph),
              op)
       \/ kwargs.max_expansion.given /\ kwargs.max_expansion.k <= current_depth
       \/ current_depth >= RecursionLimit
    THEN <<op>>
    ELSE LET Each(queued) ==
                 Chain([i \in DOMAIN queued |->
                                 Rewritten(queued[i], current_depth + 1)])
         IN  IF is_solved_for(decomp_graph, op)
             THEN Each(Queue(decomp_graph.solution[op.name].rule, op))
             ELSE Each(Decomposition(op))

\* decompose returned operators made by the rules of a solved graph
RewrittenByRules == dpc = "returned" /\ enabled_graph /\ decomp_graph.given

\* a CNOT between a Hadamard and a CZ against the gate set {H, CZ} with the
\* rule my_cnot chosen for it
CnotExample ==
    /\ RewrittenByRules
    /\ script = <<Op("Hadamard", <<0>>), Op("CNOT", <<0, 1>>), Op("CZ", <<1, 0>>)>>
    /\ TargetGates(kwargs.gate_set) = {"Hadamard", "CZ"}
    /\ kwargs.stopping_condition = "None"
    /\ kwargs.max_expansion # [given |-> TRUE, k |-> 0]
    /\ decomp_graph.solution["CNOT"].rule = "my_cnot"

\* C20: the operators returned by the graph pathway are the operators of the
\* input, each one that is rewritten replaced at its position by what its
\* rule queues, in the order of the queue; a CNOT on wires (0, 1) between a
\* Hadamard and a CZ, with the rule of resources {H: 2, CZ: 1}, gives
\* H(1), CZ(0, 1), H(1) between the Hadamard and the CZ.
RuleRewritesInPlace ==
    /\ RewrittenByRules =>
          new_ops = Chain([i \in DOMAIN script |-> Rewritten(script[i], 0)])
    /\ CnotExample =>
          new_ops = <<Op("Hadamard", <<0>>),
                      Op("Hadamard", <<1>>), Op("CZ", <<0, 1>>), Op("Hadamard", <<1>>),
                      Op("CZ", <<1, 0>>)>>

RuleRewritesInPlaceWitness ==
    /\ CnotExample
    /\ Len(new_ops) = 5

\* op is accepted by the gate set or by the stopping condition of the call
Accepted(op) ==
    ResolvedStoppingCondition(
        ResolveGateSet(kwargs.gate_set, kwargs.stopping_condition, enabled_graph), op)

\* op defines no decomposition and is not accepted
Undecomposable(op) == ~has_decomposition(op) /\ ~Accepted(op)

\* what the legacy pathway puts in the place of op visited at current_depth
RECURSIVE LegacyOutput(_, _)
LegacyOutput(op, current_depth) ==
    IF \/ Accepted(op)
       \/ ~has_decomposition(op)
       \/ kwargs.max_expansion.given /\ kwargs.max_expansion.k <= current_depth
       \/ current_depth >= RecursionLimit
    THEN <<op>>
    ELSE LET Each(decomp) ==
                 Chain([i \in DOMAIN decomp |-> LegacyOutput(decomp[i], current_depth + 1)])
         IN  Each(Decomposition(op))

LegacyReturned == dpc = "returned" /\ ~enabled_graph

\* C21: in the legacy pathway an operator without decomposition that is not
\* accepted stays in the output at its position, its name is in a
\* UserWarning, and the call raises no error for it; the warnings name no
\* operator that is accepted or has a decomposition.
UndecomposableLeftWithWarning ==
    /\ LegacyReturned =>
          /\ new_ops = Chain([i \in DOMAIN script |-> LegacyOutput(script[i], 0)])
          /\ \A i \in DOMAIN new_ops :
                Undecomposable(new_ops[i]) =>
                    \E j \in DOMAIN warnings : warnings[j] = new_ops[i].name
          /\ \A j \in DOMAIN warnings :
                \E i \in DOMAIN new_ops :
                    new_ops[i].name = warnings[j] /\ Undecomposable(new_ops[i])
    /\ (Called /\ ~enabled_graph) => derr # "DecompositionUndefinedError"
    /\ (Called /\ ~enabled_graph /\ gen_step.kind = "yield"
          /\ Undecomposable(gen_step.op)) =>
          /\ new_ops[Len(new_ops)] = gen_step.op
          /\ warnings[Len(warnings)] = gen_step.op.name

\* operators without decomposition, not accepted, came out of decompositions
\* and are in the tape returned
UndecomposableLeftWithWarningWitness ==
    /\ LegacyReturned
    /\ Len(new_ops) > Len(script)
    /\ \E i \in DOMAIN new_ops : Undecomposable(new_ops[i])
    /\ warnings # <<>>

\* op belongs to the gate set of the call (all of qml.ops when none is given)
InGateSet(op) ==
    IF kwargs.gate_set.kind = "function" THEN FunctionAccepts(op)
    ELSE IF kwargs.gate_set.kind = "None" THEN op.name \in TargetGates(OpsAll)
    ELSE op.name \in TargetGates(kwargs.gate_set)

\* the stopping_condition given to the call accepts op
UserAccepts(op) == kwargs.stopping_condition # "None" /\ StopsAtCZ(op)

LegacyUnbounded == LegacyReturned /\ ~kwargs.max_expansion.given

\* C30: when the legacy pathway returns with max_expansion = None, every
\* operator of the output is in the gate set, or is accepted by the given
\* stopping_condition, or defines no decomposition; the gate set counts also
\* when a stopping_condition is given; when every operator of the input is
\* accepted the input is returned as it is.
LegacyOutputIsFinal ==
    LegacyUnbounded =>
        /\ \A i \in DOMAIN new_ops :
              \/ InGateSet(new_ops[i])
              \/ UserAccepts(new_ops[i])
              \/ ~has_decomposition(new_ops[i])
        /\ (\A i \in DOMAIN script : InGateSet(script[i]) \/ UserAccepts(script[i]))
              => new_ops = script

\* a stopping_condition is given, it alone accepts an operator of the
\* output, and another operator was decomposed
LegacyOutputIsFinalWitness ==
    /\ LegacyUnbounded
    /\ kwargs.stopping_condition # "None"
    /\ Len(new_ops) > Len(script)
    /\ \E i \in DOMAIN new_ops : UserAccepts(new_ops[i]) /\ ~InGateSet(new_ops[i])

(***************************************************************************)
(* Claims on the dictionaries of the recursion of simulate_tree_mcm.       *)
(***************************************************************************)
\* a call of simulate_tree_mcm has begun and has not yet split its circuit
CallEntered == pc = "tree" /\ stack # <<>> /\ Top.at = "enter"

\* the measurements above the call at the top of the stack, root first, each
\* with the outcome of the branch that is being explored
PathActive ==
    [i \in 1..(Len(stack) - 1) |->
        [k |-> stack[i].op.id, v |-> stack[i].counts[stack[i].idx - 1].k]]

\* the mid-circuit measurements of a circuit
McmIds(c) == {c.ops[i].id : i \in {j \in DOMAIN c.ops : c.ops[j].kind = "MidMeasureMP"}}

\* C22, as stated: a call of simulate_tree_mcm begins with dictionaries that
\* hold the outcomes and the samples of its ancestors only, nothing written
\* by the subtree of the other outcome of a measurement.
MappingsOwnedByCall ==
    CallEntered =>
        /\ mcm_active = PathActive
        /\ \A i \in DOMAIN mcm_samples : HasKey(PathActive, mcm_samples[i].k)

\* C22, amended: mcm_active and mcm_samples are one dictionary each, handed
\* to every call and written in place; when a call begins the first entries
\* of mcm_active are its ancestors with the outcomes of the path to it, and
\* whatever else the dictionaries hold, left by a subtree explored before,
\* is keyed by measurements of the call's own circuit.
MappingsSharedAlongPath ==
    CallEntered =>
        /\ Len(mcm_active) >= Len(PathActive)
        /\ SubSeq(mcm_active, 1, Len(PathActive)) = PathActive
        /\ \A i \in DOMAIN mcm_active :
              i > Len(PathActive) => mcm_active[i].k \in McmIds(Top.circ)
        /\ \A i \in DOMAIN mcm_samples :
              \/ HasKey(PathActive, mcm_samples[i].k)
              \/ mcm_samples[i].k \in McmIds(Top.circ)

\* the call for the second outcome of a measurement begins and finds the
\* entry and the samples that the subtree of the first outcome left
MappingsSharedAlongPathWitness ==
    /\ CallEntered
    /\ Len(stack) = 2
    /\ PathActive[1].v = 1
    /\ Len(mcm_active) = 2
    /\ Len(mcm_samples) = 2

(***************************************************************************)
(* Claims on what a node hands to combine_measurements and gets back.      *)
(***************************************************************************)
\* the loop over the branches of the node at the top of the stack is over
CombineReady ==
    pc = "tree" /\ stack # <<>> /\ Top.at = "loop" /\ Top.idx > Len(Top.counts)

\* the dictionary the node is about to hand to combine_measurements
Handed == ZipMeasurements(Top.counts, Top.subs)

\* C23: for a circuit with two or more measurements, none of them tied to a
\* mid-circuit measurement value, combine_measurements returns a tuple with
\* one value for each measurement of the circuit, whether the node explored
\* two branches, one or none.
TupleForAnyNumberOfBranches ==
    (/\ CombineReady
     /\ Len(Top.circ.meas) >= 2
     /\ \A i \in DOMAIN Top.circ.meas : ~Top.circ.meas[i].mv) =>
        \A r \in {CombineMeasurements(Top.circ, Handed, mcm_samples)} :
            /\ r.err = "none"
            /\ r.val.t = "tup"
            /\ Len(r.val.v) = Len(Top.circ.meas)

\* a value, or one of the values of an array, is NaN
HasNaN(r) == \E i \in DOMAIN r.v : IsNaN(r.v[i])

\* C24: when simulate_tree_mcm ends and some shot survived every
\* postselection, it has returned, an expectation or a probability is not
\* NaN and the counts are those of the surviving shots: the subtrees that
\* lost all their shots contribute nothing.
RejectedSubtreesDiscarded ==
    (/\ TreeEnded
     /\ LeafShots > 0
     /\ OnlyMeasurement({"ExpectationMP", "ProbabilityMP", "CountsMP"})) =>
        /\ pc = "done"
        /\ circuit.meas[1].kind \in {"ExpectationMP", "ProbabilityMP"} => ~HasNaN(result)
        /\ circuit.meas[1].kind = "CountsMP" =>
              result = Cnt(LeafShots - LeafOnes, LeafOnes)

\* the entries of counts of the branches the node recursed into, in order
ExploredBranches(f) ==
    SelectSeq(f.counts, LAMBDA e : f.op.postselect = PSNone \/ e.k = f.op.postselect)

\* C25: the dictionary a node hands to combine_measurements has one entry for
\* each branch it explored, under the outcome of that branch, with the shot
\* count of that branch and the value its call returned, also when the other
\* outcome was skipped by postselection.
BranchResultsUnderOwnOutcome ==
    CombineReady =>
        /\ Len(Handed) = Len(ExploredBranches(Top))
        /\ \A j \in DOMAIN Handed :
              /\ Handed[j].k = ExploredBranches(Top)[j].k
              /\ Handed[j].c = ExploredBranches(Top)[j].c
              /\ Handed[j].v = Top.subs[j]

CarriedMeasurements(c) ==
    LET Replaced(kept) ==
            [i \in DOMAIN kept |->
                IF kept[i].kind = "VarianceMP" THEN MP("SampleMP", FALSE) ELSE kept[i]]
    IN  Replaced(SelectSeq(c.meas, LAMBDA m : ~m.mv))

\* split is what the claim says of the split of c
SplitAtFirstMcm(c, split) ==
    IF \A i \in DOMAIN c.ops : c.ops[i].kind # "MidMeasureMP"
    THEN split.none /\ split.base = c /\ split.op = NoOp
    ELSE /\ ~split.none
         /\ split.op.kind = "MidMeasureMP"
         /\ split.base.ops \o <<split.op>> \o split.next.ops = c.ops
         /\ \A i \in DOMAIN split.base.ops : split.base.ops[i].kind # "MidMeasureMP"
         /\ Len(split.base.meas) = 1
         /\ split.base.meas[1].kind = "SampleMP"
         /\ split.next.meas = CarriedMeasurements(c)
         /\ split.base.shots = c.shots
         /\ split.next.shots = c.shots

\* C27: for the circuit of every call of simulate_tree_mcm,
\* circuit_up_to_first_mcm gives a base without mid-circuit measurement that
\* samples once, the first MidMeasureMP, and a continuation with the
\* operations after it and the measurements without measurement value, a
\* variance replaced by a sample; base, measurement and continuation make up
\* the operations of the circuit; a circuit without MidMeasureMP is returned
\* as it is with nothing else; the node keeps that operator and continuation.
SplitsAtFirstMcm ==
    pc = "tree" =>
        \A i \in DOMAIN stack :
            /\ SplitAtFirstMcm(stack[i].circ, CircuitUpToFirstMcm(stack[i].circ))
            /\ stack[i].at = "loop" =>
                  /\ stack[i].op = CircuitUpToFirstMcm(stack[i].circ).op
                  /\ stack[i].next = CircuitUpToFirstMcm(stack[i].circ).next

\* a circuit with a gate before its mid-circuit measurement and a variance
\* has been split
SplitsAtFirstMcmWitness ==
    /\ pc = "tree"
    /\ Len(stack) = 1
    /\ Top.at = "loop"
    /\ Top.op.id = 2
    /\ Top.circ.ops[1].kind = "Gate"
    /\ Top.circ.meas = <<MP("VarianceMP", FALSE)>>
    /\ Top.next.meas = <<MP("SampleMP", FALSE)>>
    /\ Len(Top.next.ops) = Len(Top.circ.ops) - 2

(***************************************************************************)
(* Claims on the rows of mcm_samples.                                      *)
(***************************************************************************)
\* the rows of mcm_samples whose recorded outcomes are those of the path to
\* the call at the top of the stack
RowsOfPath ==
    {j \in DOMAIN mcm_samples[1].v :
        \A i \in DOMAIN PathActive :
            Lookup(mcm_samples, PathActive[i].k)[j] = PathActive[i].v}

\* update_mcm_samples of the call that has begun fits, whatever it sampled
UpdateFits ==
    \A split \in {CircuitUpToFirstMcm(Top.circ)} :
        split.none \/
        \A samples \in Outcomes(Top.circ.shots) :
        \A fill \in [DOMAIN mcm_samples[1].v -> Uninitialised] :
            UpdateMcmSamples(split.op, samples, mcm_active, mcm_samples, fill).err = "none"

\* C28: when a call of simulate_tree_mcm below the root begins, the rows of
\* mcm_samples that match the outcomes of its ancestors are as many as the
\* shots of its circuit, all arrays of mcm_samples have the same length, and
\* the samples of the call fit the masked rows in update_mcm_samples.
MaskedRowsMatchShots ==
    (CallEntered /\ Len(stack) > 1) =>
        /\ \A i \in DOMAIN mcm_samples :
              Len(mcm_samples[i].v) = Len(mcm_samples[1].v)
        /\ Cardinality(RowsOfPath) = Top.circ.shots
        /\ UpdateFits

\* a call for the second mid-circuit measurement begins after a branch
\* explored before it lost rows by postselection
MaskedRowsMatchShotsWitness ==
    /\ CallEntered
    /\ Len(stack) = 2
    /\ HasMidCircuitMeasurements(Top.circ)
    /\ rejected > 0
    /\ Len(mcm_samples) = 2
    /\ Len(mcm_samples[1].v) < circuit.shots
    /\ Top.circ.shots >= 1

(***************************************************************************)
(* Claims on the order of mcm_active.                                      *)
(***************************************************************************)
\* update_mcm_samples is about to run for the measurement of the call
UpdateDue == CallEntered /\ HasMidCircuitMeasurements(Top.circ)

\* prune_mcm_samples is about to run for the measurement of the node
PruneDue ==
    /\ pc = "tree"
    /\ stack # <<>>
    /\ Top.at = "loop"
    /\ Top.idx <= Len(Top.counts)
    /\ Top.op.postselect # PSNone
    /\ Branch(Top) # Top.op.postselect

\* the entries of mcm_active in front of the entry of op (all of them when
\* op has none)
EntriesBefore(op) ==
    SelectSeq([i \in DOMAIN mcm_active |->
                  [k |-> mcm_active[i].k, v |-> mcm_active[i].v,
                   before |-> \A j \in 1..i : mcm_active[j].k # op.id]],
              LAMBDA e : e.before)

\* the entries in front of op are its ancestors with the outcomes of the
\* path, and the mask of the loop selects the rows of the path
AncestorsBefore(op) ==
    /\ Len(EntriesBefore(op)) = Len(PathActive)
    /\ \A i \in DOMAIN PathActive :
          /\ EntriesBefore(op)[i].k = PathActive[i].k
          /\ EntriesBefore(op)[i].v = PathActive[i].v
    /\ \A i \in DOMAIN mcm_active :
          i > Len(PathActive) => mcm_active[i].k >= op.id
    /\ mcm_samples # <<>> =>
          ParentMask(op, mcm_active, mcm_samples,
                     [j \in DOMAIN mcm_samples[1].v |-> TRUE], 1)
             = [j \in DOMAIN mcm_samples[1].v |-> j \in RowsOfPath]

\* C29: mcm_active keeps its entries in the order of the measurements in the
\* circuit; whenever update_mcm_samples or prune_mcm_samples is about to
\* run for a measurement op, the entries in front of op are exactly the
\* ancestors of op with the outcomes of the current path, an entry left by
\* a subtree explored before is that of op or comes after it, and the mask
\* selects exactly the rows of the current path.
StaleEntriesAfterOp ==
    /\ \A i, j \in DOMAIN mcm_active : i < j => mcm_active[i].k < mcm_active[j].k
    /\ UpdateDue => AncestorsBefore(CircuitUpToFirstMcm(Top.circ).op)
    /\ PruneDue => AncestorsBefore(Top.op)

\* update_mcm_samples is about to run for a measurement below the root
\* whose entry in mcm_active was left by the subtree explored before
StaleEntriesAfterOpWitness ==
    /\ UpdateDue
    /\ Len(stack) = 2
    /\ Len(mcm_active) = 2
    /\ mcm_active[2].k = CircuitUpToFirstMcm(Top.circ).op.id
    /\ PathActive[1].v = 1

====
